---- MODULE Spec2Model ----
(***************************************************************************)
(* Verification model of the dithered pattern generator: the layer manager *)
(* (useLayerManager), the layer compositor (useCanvasRenderer), the shared *)
(* drop state (useDrops) and the frame scheduler (useCanvasAnimation).     *)
(*                                                                         *)
(* Fractions the program reads from a control, a literal or Math.random()   *)
(* are kept in percent or hundredths (opacity, shape influence, seeds, drop *)
(* speeds and lengths); what it computes from them in floating point (drop  *)
(* positions, the density, brightness values) is an IEEE 754 double.        *)
(* A layer id `layer-<n>` is modelled by the number n.                     *)
(***************************************************************************)
EXTENDS Integers, Sequences, FiniteSets, TLC

(***************************************************************************)
(* Bounds of the model.                                                    *)
(***************************************************************************)
\* The first value Date.now() returns; later readings are Epoch + k.
Epoch == 1000
\* How many times the millisecond clock advances during a run.
MaxClockTicks == 1

VARIABLES
  layers,            \* useLayerManager: the ordered layer list (React state)
  activeLayerId,     \* useLayerManager: id of the active layer
  expandedLayerIds,  \* useLayerManager: ids expanded in the panel
  now,               \* the millisecond clock (Date.now, performance.now)
  error,             \* an exception escaped from a handler
  lastOp,            \* history: the last operation called, its argument and
                     \* the length of the layer list when it was called
  canvasSize,        \* DitheredPatternGenerator: canvasSize state
  debouncedCellSize, \* DitheredPatternGenerator: debouncedCellSize state
  debounceTimer,     \* DitheredPatternGenerator: the timer of the debounce
                     \* effect
  dropsRef,          \* useDrops: the array dropsRef.current refers to
  randomSeedsRef,    \* useDrops: the array randomSeedsRef.current refers to
  drops,             \* useCanvasRenderer: the drop array renderFrame holds
  randomSeeds,       \* useCanvasRenderer: the seed table renderFrame holds
  refsCaptured,      \* the arrays renderFrame holds are the ones the refs
                     \* refer to (the same objects), not superseded ones
  isAnimating,       \* useCanvasAnimation: isAnimating state
  currentFrame,      \* useCanvasAnimation: currentFrame state (displayed)
  frameCounter,      \* useCanvasAnimation: frameCounterRef.current
  lastFrameTime,     \* useCanvasAnimation: lastFrameTimeRef.current
  rafQueue,          \* useCanvasAnimation: the tick requests that are
                     \* pending, oldest first
  unmounted,         \* the component was unmounted
  passLog,           \* history: what the last composite pass did, in order
  passes,            \* history: the passes of the last step, in order
  regenerated,       \* history: the useDrops effect regenerated the arrays
                     \* in the last step
  drawn,             \* history: what the last call of a pattern renderer or
                     \* of the shape resolver produced
  uploads,           \* the image uploads in flight: for each the closure of
                     \* the render it was started in
  pendingUpdates,    \* React: the state updates queued by a timer, frame or
                     \* load callback or by an effect, not rendered yet
  pendingEffects     \* React: the effects of the last render that have not
                     \* run yet

layerVars == <<layers, activeLayerId, expandedLayerIds>>
renderVars == <<canvasSize, debouncedCellSize, debounceTimer, dropsRef,
                randomSeedsRef, drops, randomSeeds, refsCaptured>>
animVars == <<isAnimating, currentFrame, frameCounter, lastFrameTime, rafQueue,
              unmounted>>
pendVars == <<pendingUpdates, pendingEffects>>
engineVars ==
  <<renderVars, animVars, passLog, passes, regenerated, drawn, uploads, pendVars>>
vars == <<layerVars, now, error, lastOp, engineVars>>

(***************************************************************************)
(* The numbers of the renderers are IEEE 754 doubles.  A double is written  *)
(* [neg, exp, hi, lo]: the sign, and the magnitude (hi * Limb + lo) * 2^exp *)
(* with a mantissa of exactly 53 bits, 2^25 <= hi < 2^26 and lo < Limb      *)
(* (hi = lo = 0 for 0).  The operations round to nearest, ties to even, as  *)
(* the processor does.  A percent or hundredths value n of the model names  *)
(* the double nearest to n / 100, which is what a numeric literal, a        *)
(* slider's parseFloat and a sampled Math.random() give.                    *)
(*                                                                         *)
(* A wide number <<w1, w2, w3>> is w1 + w2 * Limb + w3 * Limb^2, each limb  *)
(* below Limb.                                                             *)
(***************************************************************************)
Limb == 134217728

\* floor(w / 2^s), and whether a bit was lost.
WideShr(w, s) ==
  LET j == s \div 27
      p == 2 ^ (s % 27)
      limb(i) == IF i <= 3 THEN w[i] ELSE 0
      out(i) == (limb(i + j) \div p) + (limb(i + j + 1) % p) * (Limb \div p)
  IN  [w |-> <<out(1), out(2), out(3)>>,
       lost |-> \/ \E i \in 1..(IF j < 3 THEN j ELSE 3) : w[i] # 0
                \/ limb(j + 1) % p # 0]

\* w * 2^s, for a product below Limb^3.
WideShl(w, s) ==
  LET j == s \div 27
      r == s % 27
      limb(i) == IF i >= 1 THEN w[i] ELSE 0
      out(i) == (limb(i - j) % 2 ^ (27 - r)) * 2 ^ r
                  + (limb(i - j - 1) \div 2 ^ (27 - r))
  IN  <<out(1), out(2), out(3)>>

\* The places w is shifted left by to bring its top bit to bit 80 (below 0:
\* one place to the right), for w # 0.
WideLead(w) ==
  LET top == IF w[3] # 0 THEN 3 ELSE IF w[2] # 0 THEN 2 ELSE 1
      block == CHOOSE c \in 0..2 : 2 ^ (18 - 9 * c) <= w[top] /\ w[top] < 2 ^ (27 - 9 * c)
      zeros == CHOOSE z \in (9 * block)..(9 * block + 8) :
                 2 ^ (26 - z) <= w[top] /\ w[top] < 2 ^ (27 - z)
  IN  80 - (27 * top - zeros)

\* w with its top bit brought to bit 80 by a shift of s places.
WideNormal(w, s) ==
  IF s = 0 THEN [w |-> w, lost |-> FALSE, by |-> s]
  ELSE IF s < 0 THEN [w |-> WideShr(w, 1).w, lost |-> w[1] % 2 = 1, by |-> s]
  ELSE [w |-> WideShl(w, s), lost |-> FALSE, by |-> s]

\* The double of the normal wide number n.w * 2^(exp - n.by): limbs 3 and 2
\* are the mantissa, limb 1 and the bits lost decide the rounding.
DoublePack(neg, exp, n, sticky) ==
  IF ~ \/ n.w[1] > 2 ^ 26
       \/ /\ n.w[1] = 2 ^ 26
          /\ (sticky \/ n.lost \/ n.w[2] % 2 = 1)
    THEN [neg |-> neg, exp |-> exp - n.by + 27, hi |-> n.w[3], lo |-> n.w[2]]
  ELSE IF n.w[2] + 1 < Limb
    THEN [neg |-> neg, exp |-> exp - n.by + 27, hi |-> n.w[3], lo |-> n.w[2] + 1]
  ELSE IF n.w[3] + 1 < 2 ^ 26
    THEN [neg |-> neg, exp |-> exp - n.by + 27, hi |-> n.w[3] + 1, lo |-> 0]
  ELSE [neg |-> neg, exp |-> exp - n.by + 28, hi |-> 2 ^ 25, lo |-> 0]

\* The double nearest to w * 2^exp (ties to even), a little more than that
\* if sticky.
DoubleRound(neg, exp, w, sticky) ==
  IF w = <<0, 0, 0>> THEN [neg |-> FALSE, exp |-> 0, hi |-> 0, lo |-> 0]
  ELSE DoublePack(neg, exp, WideNormal(w, WideLead(w)), sticky)

\* The next 27 bits q of the quotient by d after the remainder r, and the
\* remainder left.
DivLimb(r, d) ==
  LET a == r * 512
      b == (a % d) * 512
      c == (b % d) * 512
  IN  [q |-> ((a \div d) * 512 + (b \div d)) * 512 + (c \div d), r |-> c % d]

\* The first three limbs of the fraction r / d, and the remainder left.
DivWide(r, d) ==
  LET q1 == DivLimb(r, d)
      q2 == DivLimb(q1.r, d)
      q3 == DivLimb(q2.r, d)
  IN  <<q1.q, q2.q, q3.q, q3.r>>

\* The double of whole + f, f the limbs of a fraction.
DoubleOfQuotient(neg, whole, f) ==
  DoubleRound(neg, IF whole # 0 THEN 0 - 54 ELSE 0 - 81,
              IF whole # 0 THEN <<f[2], f[1], whole>> ELSE <<f[3], f[2], f[1]>>,
              IF whole # 0 THEN f[3] # 0 \/ f[4] # 0 ELSE f[4] # 0)

\* The double nearest to n / d, for integers |n| < d * Limb and d in 1..2^22.
DoubleOfRatio(n, d) ==
  DoubleOfQuotient(n < 0, (IF n < 0 THEN 0 - n ELSE n) \div d,
                   DivWide((IF n < 0 THEN 0 - n ELSE n) % d, d))

\* The doubles named by the model's hundredths, n / 100 for n in 0..2500.
Hundredth == [n \in 0..2500 |-> DoubleOfRatio(n, 100)] @@ <<>>

\* -a
DoubleNeg(a) == IF a.hi = 0 THEN a ELSE [a EXCEPT !.neg = ~a.neg]

\* The mantissa of d in four pieces of 14 bits (the last of 11).
DoublePieces(d) ==
  << d.lo % 16384, (d.lo \div 16384) + (d.hi % 2) * 8192,
     (d.hi \div 2) % 16384, d.hi \div 32768 >>

\* The products of the pieces of two mantissas, summed by weight.
PieceProducts(x, y) ==
  << x[1] * y[1],
     x[1] * y[2] + x[2] * y[1],
     x[1] * y[3] + x[2] * y[2] + x[3] * y[1],
     x[1] * y[4] + x[2] * y[3] + x[3] * y[2] + x[4] * y[1],
     x[2] * y[4] + x[3] * y[3] + x[4] * y[2],
     x[3] * y[4] + x[4] * y[3],
     x[4] * y[4] >>

\* The double of the product whose piece products are c: the carries, then
\* the wide number of the pieces above the lowest 25 bits.
DoubleOfProduct(neg, exp, c) ==
  LET t1 == c[1]
      t2 == c[2] + (t1 \div 16384)
      t3 == c[3] + (t2 \div 16384)
      t4 == c[4] + (t3 \div 16384)
      t5 == c[5] + (t4 \div 16384)
      t6 == c[6] + (t5 \div 16384)
      t7 == c[7] + (t6 \div 16384)
  IN  DoubleRound(neg, exp,
                  << ((t2 % 16384) \div 2048) + (t3 % 16384) * 8 + (t4 % 1024) * 131072,
                     ((t4 % 16384) \div 1024) + (t5 % 16384) * 16 + (t6 % 512) * 262144,
                     ((t6 % 16384) \div 512) + (t7 % 16384) * 32 + (t7 \div 16384) * 524288 >>,
                  t1 % 16384 # 0 \/ t2 % 2048 # 0)

\* a * b: the mantissas multiplied in pieces of 14 bits.
DoubleMul(a, b) ==
  IF a.hi = 0 \/ b.hi = 0 THEN [neg |-> FALSE, exp |-> 0, hi |-> 0, lo |-> 0]
  ELSE DoubleOfProduct(a.neg # b.neg, a.exp + b.exp + 25,
                       PieceProducts(DoublePieces(a), DoublePieces(b)))

\* x + y or x - y for |x| >= |y| > 0, sh the mantissa of y aligned with the
\* mantissa of x.
DoubleSum(x, same, sh) ==
  LET s2 == x.lo + sh.w[2]
      s3 == x.hi + sh.w[3] + (s2 \div Limb)
      d1 == 0 - sh.w[1] - (IF sh.lost THEN 1 ELSE 0)
      d2 == x.lo - sh.w[2] + (d1 \div Limb)
      d3 == x.hi - sh.w[3] + (d2 \div Limb)
  IN  DoubleRound(x.neg, x.exp - 27,
                  IF same THEN <<sh.w[1], s2 % Limb, s3>>
                  ELSE <<d1 % Limb, d2 % Limb, d3>>,
                  sh.lost)

\* |a| >= |b|, for a and b other than 0
DoubleOutweighs(a, b) ==
  \/ a.exp > b.exp
  \/ /\ a.exp = b.exp
     /\ (a.hi > b.hi \/ (a.hi = b.hi /\ a.lo >= b.lo))

\* a + b
DoubleAdd(a, b) ==
  LET x == IF DoubleOutweighs(a, b) THEN a ELSE b
      y == IF DoubleOutweighs(a, b) THEN b ELSE a
  IN  IF a.hi = 0 THEN b
      ELSE IF b.hi = 0 THEN a
      ELSE DoubleSum(x, a.neg = b.neg, WideShr(<<0, y.lo, y.hi>>, x.exp - y.exp))

\* a < b
DoubleLess(a, b) ==
  LET smaller(x, y) ==
        \/ x.exp < y.exp
        \/ /\ x.exp = y.exp
           /\ (x.hi < y.hi \/ (x.hi = y.hi /\ x.lo < y.lo))
  IN  IF a.hi = 0 THEN b.hi # 0 /\ ~b.neg
      ELSE IF b.hi = 0 THEN a.neg
      ELSE IF a.neg # b.neg THEN a.neg
      ELSE IF a.neg THEN smaller(b, a)
      ELSE smaller(a, b)

\* Math.floor(a), for |a| < 2^30
DoubleFloor(a) ==
  LET s == 0 - a.exp
      v == IF a.hi = 0 \/ s >= 53 THEN 0
           ELSE IF s >= 27 THEN a.hi \div 2 ^ (s - 27)
           ELSE a.hi * 2 ^ (27 - s) + (a.lo \div 2 ^ s)
      whole == \/ a.hi = 0
               \/ s >= 27 /\ s < 53 /\ a.lo = 0 /\ a.hi % 2 ^ (s - 27) = 0
               \/ s < 27 /\ a.lo % 2 ^ s = 0
  IN  IF a.neg /\ ~whole THEN 0 - v - 1 ELSE IF a.neg THEN 0 - v ELSE v

\* The next 27 bits q of the quotient by the mantissa d after the remainder
\* r, and the remainder left; d and r are written <<hi, lo>> and r < d.  A
\* bit at a time, the remainder is doubled and d taken from it where it fits.
DivBits(r, d) ==
  LET bit[n \in 0..27] ==
        IF n = 0 THEN [q |-> 0, hi |-> r[1], lo |-> r[2]]
        ELSE LET p == bit[n - 1]
                 hi == 2 * p.hi + ((2 * p.lo) \div Limb)
                 lo == (2 * p.lo) % Limb
             IN  IF hi > d[1] \/ (hi = d[1] /\ lo >= d[2])
                   THEN [q |-> 2 * p.q + 1,
                         hi |-> hi - d[1] + ((lo - d[2]) \div Limb),
                         lo |-> (lo - d[2]) % Limb]
                   ELSE [q |-> 2 * p.q, hi |-> hi, lo |-> lo]
  IN  bit[27]

\* The limbs p.f of a fraction with the next limb joined to them.
DivExtend(p, d) ==
  LET q == DivBits(<<p.hi, p.lo>>, d)
  IN  [f |-> Append(p.f, q.q), hi |-> q.hi, lo |-> q.lo]

\* The first three limbs of the fraction r / d of two mantissas, and whether
\* a remainder is left.
DivMantissa(r, d) ==
  LET limbs[k \in 0..3] ==
        IF k = 0 THEN [f |-> <<>>, hi |-> r[1], lo |-> r[2]]
        ELSE DivExtend(limbs[k - 1], d)
  IN  Append(limbs[3].f, limbs[3].hi + limbs[3].lo)

\* a / b, for b other than 0
DoubleDiv(a, b) ==
  LET whole == IF a.hi > b.hi \/ (a.hi = b.hi /\ a.lo >= b.lo) THEN 1 ELSE 0
      r == IF whole = 0 THEN <<a.hi, a.lo>>
           ELSE <<a.hi - b.hi + ((a.lo - b.lo) \div Limb), (a.lo - b.lo) % Limb>>
      q == DoubleOfQuotient(a.neg # b.neg, whole, DivMantissa(r, <<b.hi, b.lo>>))
  IN  IF a.hi = 0 THEN a ELSE [q EXCEPT !.exp = @ + a.exp - b.exp]

(***************************************************************************)
(* Layers                                                                  *)
(***************************************************************************)
NoShape == [present |-> FALSE, grid |-> <<>>]

DEFAULT_LAYER_CONFIG ==
  [ symbolSet |-> "01", density |-> Hundredth[70], cellSize |-> 12,
    color |-> "#00ff9f", bgColor |-> "#0a0e27", animationSpeed |-> 50,
    pattern |-> "rain", gradient |-> TRUE, glowEffect |-> TRUE,
    shapeInfluence |-> 80, gradientStrength |-> 80,
    glowIntensity |-> 10, glowRadius |-> 10 ]

createDefaultLayerConfig == DEFAULT_LAYER_CONFIG

\* A layer as addLayer and the initial state build it; `name` is the number
\* in "Layer <n>", shapeImage 0 is null.
NewLayer(id, n) ==
  [ id |-> id, name |-> n, visible |-> TRUE, opacity |-> 100,
    config |-> createDefaultLayerConfig, shapeImage |-> 0,
    shapeData |-> NoShape ]

InitialLayerId == 1

LayerIds(ls) == { ls[i].id : i \in 1..Len(ls) }

\* layers.filter(l => l.id !== layerId)
FilterOut(ls, layerId) == SelectSeq(ls, LAMBDA l : l.id # layerId)

\* Array.prototype.splice's normalisation of its start index (0-based).
SpliceStart(len, start) ==
  IF start < 0 THEN (IF len + start < 0 THEN 0 ELSE len + start)
  ELSE IF start > len THEN len ELSE start

\* The array left by arr.splice(start, 1), start 0-based.
SpliceRemove(arr, start) ==
  LET s == SpliceStart(Len(arr), start)
  IN  IF s >= Len(arr) THEN arr
      ELSE SubSeq(arr, 1, s) \o SubSeq(arr, s + 2, Len(arr))

\* The elements arr.splice(start, 1) returns.
SpliceRemoved(arr, start) ==
  LET s == SpliceStart(Len(arr), start)
  IN  IF s >= Len(arr) THEN <<>> ELSE <<arr[s + 1]>>

\* arr.splice(start, 1, item): the item overwrites the element at start.
SpliceInsert_Replace(arr, start, item) ==
  LET s == SpliceStart(Len(arr), start)
  IN  SubSeq(arr, 1, s) \o <<item>> \o SubSeq(arr, s + 2, Len(arr))

\* The array left by arr.splice(start, 0, item), start 0-based.
SpliceInsert(arr, start, item) ==
  LET s == SpliceStart(Len(arr), start)
  IN  SubSeq(arr, 1, s) \o <<item>> \o SubSeq(arr, s + 1, Len(arr))

Op(name, id, len) == [op |-> name, id |-> id, len |-> len]
\* What lastOp holds after an operation no property needs to recognise.
NoOp == Op("other", 0, 0)

(***************************************************************************)
(* useLayerManager: the handlers, each followed by the re-render that      *)
(* makes the new state the one the next handler sees.                      *)
(***************************************************************************)
\* addLayer with the capacity test off by one (layers.length > 3).
addLayer_CapacityOffByOne ==
  /\ lastOp' = Op("addLayer", 0, Len(layers))
  /\ IF Len(layers) > 3
       THEN UNCHANGED <<layers, activeLayerId, expandedLayerIds, error>>
       ELSE /\ layers' = Append(layers, NewLayer(now, Len(layers) + 1))
            /\ activeLayerId' = now
            /\ expandedLayerIds' = expandedLayerIds \cup {now}
            /\ UNCHANGED error

addLayer ==
  /\ lastOp' = Op("addLayer", 0, Len(layers))
  /\ IF Len(layers) >= 3
       THEN UNCHANGED <<layers, activeLayerId, expandedLayerIds, error>>
       ELSE LET newId == now
            IN  /\ layers' = Append(layers, NewLayer(newId, Len(layers) + 1))
                /\ activeLayerId' = newId
                /\ expandedLayerIds' = expandedLayerIds \cup {newId}
                /\ UNCHANGED error

removeLayer(layerId) ==
  /\ lastOp' = Op("removeLayer", layerId, Len(layers))
  /\ IF Len(layers) = 1
       THEN UNCHANGED <<layers, activeLayerId, expandedLayerIds, error>>
       ELSE LET newLayers == FilterOut(layers, layerId)
            IN  /\ layers' = newLayers
                /\ IF activeLayerId = layerId /\ Len(newLayers) = 0
                     THEN \* newLayers[0].id throws a TypeError: the handler
                          \* stops here, the queued setLayers still applies
                          /\ error' = TRUE
                          /\ UNCHANGED <<activeLayerId, expandedLayerIds>>
                     ELSE /\ activeLayerId' =
                               IF activeLayerId = layerId
                                 THEN newLayers[1].id ELSE activeLayerId
                          /\ expandedLayerIds' = expandedLayerIds \ {layerId}
                          /\ UNCHANGED error

updateActiveLayerConfig(configUpdate) ==
  /\ lastOp' = NoOp
  /\ layers' = [ i \in 1..Len(layers) |->
                   IF layers[i].id = activeLayerId
                     THEN [layers[i] EXCEPT !.config =
                             [ f \in DOMAIN layers[i].config |->
                                 IF f \in DOMAIN configUpdate
                                   THEN configUpdate[f]
                                   ELSE layers[i].config[f] ]]
                     ELSE layers[i] ]
  /\ UNCHANGED <<activeLayerId, expandedLayerIds, error>>

updateLayerProperty(layerId, updates) ==
  /\ lastOp' = NoOp
  /\ layers' = [ i \in 1..Len(layers) |->
                   IF layers[i].id = layerId
                     THEN [ f \in DOMAIN layers[i] |->
                              IF f \in DOMAIN updates
                                THEN updates[f] ELSE layers[i][f] ]
                     ELSE layers[i] ]
  /\ UNCHANGED <<activeLayerId, expandedLayerIds, error>>

reorderLayers(fromIndex, toIndex) ==
  /\ lastOp' = NoOp
  /\ LET removed == SpliceRemoved(layers, fromIndex)
         rest == SpliceRemove(layers, fromIndex)
     IN  layers' = SpliceInsert(rest, toIndex, removed[1])
  /\ UNCHANGED <<activeLayerId, expandedLayerIds, error>>

setActiveLayerId(id) ==
  /\ lastOp' = NoOp
  /\ activeLayerId' = id
  /\ UNCHANGED <<layers, expandedLayerIds, error>>

toggleLayerExpand(layerId) ==
  /\ lastOp' = NoOp
  /\ expandedLayerIds' =
       IF layerId \in expandedLayerIds
         THEN expandedLayerIds \ {layerId}
         ELSE expandedLayerIds \cup {layerId}
  /\ UNCHANGED <<layers, activeLayerId, error>>

(***************************************************************************)
(* colorUtils: the shape influence resolver.  The brightness values of the  *)
(* grid and the shape influence are held in percent and name doubles; the   *)
(* resolver's result is a double.                                           *)
(***************************************************************************)
\* Math.floor((gridDim - shapeDim) / 2) rounded toward zero instead.
ShapeOffset_TowardZero(gridDim, shapeDim) ==
  IF gridDim >= shapeDim THEN (gridDim - shapeDim) \div 2
  ELSE 0 - ((shapeDim - gridDim) \div 2)

\* Math.floor((gridDim - shapeDim) / 2)
ShapeOffset(gridDim, shapeDim) == (gridDim - shapeDim) \div 2

\* A resolver that takes an absent shape for a cell outside the shape.
getShapeBrightnessForLayer_AbsentAsOutside(x, y, cols, rows, layer) ==
  DoubleAdd(Hundredth[100], DoubleNeg(Hundredth[layer.config.shapeInfluence]))

getShapeBrightnessForLayer(x, y, cols, rows, layer) ==
  IF ~layer.shapeData.present THEN Hundredth[100]
  ELSE LET grid == layer.shapeData.grid
           shapeWidth == Len(grid[1])
           shapeHeight == Len(grid)
           shapeX == x - ShapeOffset(cols, shapeWidth)
           shapeY == y - ShapeOffset(rows, shapeHeight)
           k == Hundredth[layer.config.shapeInfluence]
       IN  IF shapeX < 0 \/ shapeX >= shapeWidth
              \/ shapeY < 0 \/ shapeY >= shapeHeight
           THEN DoubleAdd(Hundredth[100], DoubleNeg(k))
           ELSE DoubleAdd(DoubleMul(Hundredth[grid[shapeY + 1][shapeX + 1]], k),
                          DoubleAdd(Hundredth[100], DoubleNeg(k)))

\* The cells of a cols x rows grid in the order the renderers visit them:
\* for i in 0..cols-1, for j in 0..rows-1.
Cell(n, rows) == [i |-> (n - 1) \div rows, j |-> (n - 1) % rows]

\* The resolver called for every cell of the grid.
ResolveGrid(cols, rows, layer) ==
  [ n \in 1..(cols * rows) |->
      [i |-> Cell(n, rows).i, j |-> Cell(n, rows).j,
       value |-> getShapeBrightnessForLayer(Cell(n, rows).i, Cell(n, rows).j,
                                            cols, rows, layer)] ]

(***************************************************************************)
(* colorUtils: the reads of the seed table.  A pattern renderer reads a     *)
(* field of randomSeeds[index] without a test of the index: a read past    *)
(* the table, below 0 or at NaN ends the renderer with a TypeError.        *)
(***************************************************************************)
\* The remainder operator of the source language: the result has the sign of
\* the dividend.  The divisor is positive.
JsRem(a, b) == IF a >= 0 THEN a % b ELSE 0 - ((0 - a) % b)

\* An index no seed table has an entry for (x % 0 is NaN).
InvalidIndex == 0 - 1

\* randomSeeds[index] is undefined: reading a field of it throws.
Undefined(index, len) == index < 0 \/ index >= len

\* (baseSeedIndex + frameOffset) % randomSeeds.length
StaticSeedIndex(i, j, rows, frame, len) ==
  IF len = 0 THEN InvalidIndex
  ELSE JsRem(JsRem(i * rows + j, len) + JsRem(frame * 17, len), len)

\* (i * rows + j) % randomSeeds.length
BaseSeedIndex(i, j, rows, len) ==
  IF len = 0 THEN InvalidIndex ELSE JsRem(i * rows + j, len)

\* (seedIndex + frame) % randomSeeds.length
GlitchSeedIndex(seedIndex, frame, len) ==
  IF len = 0 THEN InvalidIndex ELSE JsRem(seedIndex + frame, len)

\* glitchCycle < 5 || (glitchCycle > 30 && glitchCycle < 35)
IsGlitching(frame) ==
  LET glitchCycle == JsRem(frame, 80)
  IN  glitchCycle < 5 \/ (glitchCycle > 30 /\ glitchCycle < 35)

\* The cells a renderer's loops get through, bad the cells in which a read of
\* the seed table throws: all of them, or those before the first bad one.
CellsBefore(bad, count) ==
  IF bad = {} THEN count
  ELSE (CHOOSE n \in bad : \A m \in bad : n <= m) - 1

\* The read of the seed table in the n-th cell of the static renderer throws.
StaticCellThrows(n, rows, frame, len) ==
  Undefined(StaticSeedIndex(Cell(n, rows).i, Cell(n, rows).j, rows, frame, len), len)

\* A read of the seed table in the n-th cell of the glitch renderer throws:
\* randomSeeds[glitchSeedIndex].r1 is read while glitching,
\* randomSeeds[seedIndex].r2 in every cell.
GlitchCellThrows(n, rows, frame, len) ==
  \/ /\ IsGlitching(frame)
     /\ Undefined(GlitchSeedIndex(BaseSeedIndex(Cell(n, rows).i, Cell(n, rows).j,
                                                rows, len), frame, len), len)
  \/ Undefined(BaseSeedIndex(Cell(n, rows).i, Cell(n, rows).j, rows, len), len)

\* The brightness of the j-th symbol of a rain drop of the given length:
\* alpha = (1 - (j / drop.length)) * shapeBrightness, and
\* alpha * gradientStrength + (1 - gradientStrength) with the gradient on.
RainBrightness(config, j, length, shapeBrightness) ==
  IF config.gradient
    THEN DoubleAdd(DoubleMul(DoubleMul(DoubleAdd(Hundredth[100],
                                                 DoubleNeg(DoubleDiv(DoubleOfRatio(j, 1),
                                                                     Hundredth[length]))),
                                       shapeBrightness),
                             Hundredth[config.gradientStrength]),
                   DoubleAdd(Hundredth[100],
                             DoubleNeg(Hundredth[config.gradientStrength])))
    ELSE shapeBrightness

\* The rain renderer throws at the j-th symbol of a drop, y = drop.y - j: the
\* symbol is on the grid, brightness > 0.1, and the seed at
\* (dropX + yInt) % randomSeeds.length is undefined.
RainSymbolThrows(layer, cols, rows, drop, j, y, len) ==
  /\ ~DoubleLess(y, Hundredth[0])
  /\ DoubleLess(y, DoubleOfRatio(rows, 1))
  /\ Undefined(IF len = 0 THEN InvalidIndex
               ELSE JsRem(drop.x + DoubleFloor(y), len), len)
  /\ DoubleLess(Hundredth[10],
                RainBrightness(layer.config, j, drop.length,
                               getShapeBrightnessForLayer(drop.x, DoubleFloor(y),
                                                          cols, rows, layer)))

\* The rain renderer throws: for (let j = 0; j < drop.length; j++) comes to
\* a symbol it draws whose seed is undefined.  On the grid yInt >= 0, so
\* the remainder (dropX + yInt) % randomSeeds.length is an index of the
\* table unless the table is empty or dropX is negative.
RainThrows(layer, cols, rows, ds, seeds) ==
  \E d \in 1..Len(ds) :
    /\ Len(seeds) = 0 \/ ds[d].x < 0
    /\ \E j \in { k \in 0..(ds[d].length \div 100) : k * 100 < ds[d].length } :
         RainSymbolThrows(layer, cols, rows, ds[d], j,
                          DoubleAdd(ds[d].y, DoubleNeg(DoubleOfRatio(j, 1))),
                          Len(seeds))

(***************************************************************************)
(* useCanvasRenderer: one composite pass                                   *)
(***************************************************************************)
\* Math.floor(width / cellSize), Math.floor(height / cellSize)
GridCols(size, cellSize) == size.width \div cellSize
GridRows(size, cellSize) == size.height \div cellSize

\* layers.find(l => l.id === activeLayerId) || layers[0]
ActiveLayerOf(ls, id) ==
  IF \E i \in 1..Len(ls) : ls[i].id = id
    THEN ls[CHOOSE i \in 1..Len(ls) :
              /\ ls[i].id = id
              /\ \A j \in 1..(i - 1) : ls[j].id # id]
    ELSE ls[1]

activeLayer == ActiveLayerOf(layers, activeLayerId)

\* The offscreen canvas renderLayerToCanvas leaves for a layer: what the
\* pattern renderer is given to draw from.  Only the rain renderer reads
\* the drops.
renderLayerToCanvas(layer, size, ds, seeds, frame) ==
  [ config |-> layer.config,
    shapeData |-> layer.shapeData,
    cols |-> GridCols(size, layer.config.cellSize),
    rows |-> GridRows(size, layer.config.cellSize),
    frame |-> frame,
    randomSeeds |-> seeds,
    drops |-> IF layer.config.pattern = "rain" THEN ds ELSE <<>> ]

NoSurface == [none |-> TRUE]

\* The entries of a pass log: the calls on the main canvas context and the
\* updates of the drops, in the order the pass makes them.
FillRect(style) ==
  [op |-> "fillRect", style |-> style, surface |-> NoSurface,
   globalAlpha |-> 100, index |-> 0]
DrawImage(surface, alpha) ==
  [op |-> "drawImage", style |-> "", surface |-> surface,
   globalAlpha |-> alpha, index |-> 0]
DropUpdate(i) ==
  [op |-> "dropUpdate", style |-> "", surface |-> NoSurface,
   globalAlpha |-> 100, index |-> i]

\* bottomLayer?.config.bgColor || '#0a0e27'
BottomFill(ls) ==
  IF Len(ls) >= 1 /\ ls[1].config.bgColor # ""
    THEN ls[1].config.bgColor ELSE "#0a0e27"

\* layers.filter(layer => layer.visible)
visibleLayers(ls) == SelectSeq(ls, LAMBDA l : l.visible)

\* The switch of renderLayerToCanvas over layer.config.pattern calls a
\* renderer that throws.
renderLayerThrows(layer, size, ds, seeds, frame) ==
  LET cols == GridCols(size, layer.config.cellSize)
      rows == GridRows(size, layer.config.cellSize)
      len == Len(seeds)
  IN  CASE layer.config.pattern = "rain" -> RainThrows(layer, cols, rows, ds, seeds)
        [] layer.config.pattern = "static" ->
             \E n \in 1..(cols * rows) : StaticCellThrows(n, rows, frame, len)
        [] layer.config.pattern = "glitch" ->
             \E n \in 1..(cols * rows) : GlitchCellThrows(n, rows, frame, len)
        \* wave and pulse read randomSeeds[(i * rows + j) % length].r1 in
        \* every cell
        [] layer.config.pattern \in {"wave", "pulse"} ->
             \E n \in 1..(cols * rows) :
               Undefined(BaseSeedIndex(Cell(n, rows).i, Cell(n, rows).j, rows, len),
                         len)
        [] OTHER -> FALSE

\* The places in the list vis of the layers whose renderer throws.
ThrowingLayers(vis, size, ds, seeds, frame) ==
  { k \in 1..Len(vis) : renderLayerThrows(vis[k], size, ds, seeds, frame) }

\* The fill and the forEach over the visible layers, the topmost first.
MergeLayers_Reversed(ls, size, ds, seeds, frame) ==
  LET vis == visibleLayers(ls)
      n == Len(vis)
      rev == [k \in 1..n |-> vis[n + 1 - k]]
  IN  <<FillRect(BottomFill(ls))>> \o
      [ k \in 1..CellsBefore(ThrowingLayers(rev, size, ds, seeds, frame), n) |->
          DrawImage(renderLayerToCanvas(rev[k], size, ds, seeds, frame),
                    rev[k].opacity) ]

\* The fill and the forEach over the visible layers: an exception of
\* renderLayerToCanvas ends the forEach before the layer is drawn.
MergeLayers(ls, size, ds, seeds, frame) ==
  LET vis == visibleLayers(ls)
  IN  <<FillRect(BottomFill(ls))>> \o
      [ k \in 1..CellsBefore(ThrowingLayers(vis, size, ds, seeds, frame),
                             Len(vis)) |->
          DrawImage(renderLayerToCanvas(vis[k], size, ds, seeds, frame),
                    vis[k].opacity) ]

\* drop.y += drop.speed * 0.3
MoveDrop(drop) ==
  [drop EXCEPT !.y = DoubleAdd(drop.y, DoubleMul(Hundredth[drop.speed], Hundredth[30]))]

\* if (drop.y > rows + drop.length) { drop.y = -drop.length; drop.speed = ... }
\* newSpeed stands for 0.5 + Math.random() * 1.5.
WrapDrop(drop, rows, newSpeed) ==
  IF DoubleLess(DoubleAdd(DoubleOfRatio(rows, 1), Hundredth[drop.length]), drop.y)
    THEN [drop EXCEPT !.y = DoubleNeg(Hundredth[drop.length]), !.speed = newSpeed]
    ELSE drop

\* The body of drops.forEach without the wrap.
UpdateDrop_NoWrap(drop, rows, newSpeed) == MoveDrop(drop)

\* The body of drops.forEach.
UpdateDrop(drop, rows, newSpeed) == WrapDrop(MoveDrop(drop), rows, newSpeed)

UpdateDrops(ds, size, cellSize, newSpeeds) ==
  [ i \in 1..Len(ds) |->
      UpdateDrop(ds[i], GridRows(size, cellSize), newSpeeds[i]) ]

\* What a pass leaves that merged the layers with the log merged, of the
\* fill and a drawImage for each of the count visible layers unless an
\* exception ended the forEach: the drops are updated after the forEach, so
\* not in a pass that an exception ended.
CompositePass(merged, count, ds, size, cellSize, newSpeeds) ==
  IF Len(merged) < count + 1
    THEN [log |-> merged, drops |-> ds, aborted |-> TRUE]
    ELSE [ log |-> merged \o [ i \in 1..Len(ds) |-> DropUpdate(i) ],
           drops |-> UpdateDrops(ds, size, cellSize, newSpeeds),
           aborted |-> FALSE ]

\* renderFrame without its test of the canvas size.
renderFrame_NoSizeTest(ls, size, ds, seeds, cellSize, frame, newSpeeds) ==
  CompositePass(MergeLayers(ls, size, ds, seeds, frame), Len(visibleLayers(ls)),
                ds, size, cellSize, newSpeeds)

\* renderFrame(frame) of a renderer holding the layers ls, the drop array
\* ds and the seed table seeds: the log of the pass, the drop array it
\* leaves, and whether an exception ended it.
renderFrame(ls, size, ds, seeds, cellSize, frame, newSpeeds) ==
  IF size.width = 0 \/ size.height = 0
    THEN [log |-> <<>>, drops |-> ds, aborted |-> FALSE]
    ELSE CompositePass(MergeLayers(ls, size, ds, seeds, frame),
                       Len(visibleLayers(ls)), ds, size, cellSize, newSpeeds)

\* Values 0.5 + Math.random() * 1.5 is sampled at, in hundredths.
SpeedSamples == {100, 150}

\* The speeds a pass can redraw: one of the samples for a drop that wraps; a
\* drop that does not wrap keeps its speed.
Redraws(ds, size, cellSize) ==
  LET wraps(i) == UpdateDrop(ds[i], GridRows(size, cellSize), ds[i].speed).y
                    = DoubleNeg(Hundredth[ds[i].length])
      wrapping == SelectSeq([i \in 1..Len(ds) |-> i], wraps)
  IN  { f \in [1..Len(ds) -> SpeedSamples] :
          \A i \in 1..Len(ds) :
            \/ \E k \in 1..Len(wrapping) : wrapping[k] = i
            \/ f[i] = ds[i].speed }

\* The record of one composite pass: the frame it rendered and the drop array
\* of useDrops (dropsRef.current) before and after it.
PassRec(frame, before, after) ==
  [frame |-> frame, before |-> before, after |-> after]

(***************************************************************************)
(* The state of the first render, before any effect has run.               *)
(***************************************************************************)
\* No pattern renderer was called.
NotDrawn == [op |-> "none"]

\* The delay of the debounce effect, in milliseconds.
DebounceDelay == 150

NoTimer == [pending |-> FALSE, deadline |-> 0, value |-> 0]

\* setTimeout(() => setDebouncedCellSize(cellSize), 150) at time t.
Timer(t, cellSize) ==
  [pending |-> TRUE, deadline |-> t + DebounceDelay, value |-> cellSize]

\* A debounce effect whose cleanup does not clear the timer that is pending.
DebounceEffect_NoClear(timer, changed, t, cellSize) ==
  IF changed /\ ~timer.pending THEN Timer(t, cellSize) ELSE timer

\* The debounce effect (deps [activeLayer.config.cellSize]) run at time t
\* after a render that changed the cell size: the cleanup clears the timer
\* and a new one is set.
DebounceEffect(timer, changed, t, cellSize) ==
  IF changed THEN Timer(t, cellSize) ELSE timer

(***************************************************************************)
(* React 18: a state update made in a timer, animation frame or load        *)
(* callback, or in an effect, is queued; the render that applies it is a    *)
(* later task, and the effects of that render run after it, in a later task *)
(* again.  Only the updates of a click or change handler are rendered, and  *)
(* the effects of that render run, before the event returns; the effects    *)
(* that wait are run first, and the updates other callbacks queued for      *)
(* other state values stay queued.                                          *)
(***************************************************************************)
\* No update is queued: per state value, <<>> or <<the value queued>>.
NoUpdates ==
  [canvasSize |-> <<>>, debouncedCellSize |-> <<>>, currentFrame |-> <<>>,
   layers |-> <<>>]

\* No effect waits.  regen, debounce, anim: the dependencies of the useDrops,
\* debounce and animation effect changed in the last render; wasAnimating:
\* the animation effect ran with isAnimating true the time before and
\* returned a cleanup; loop: what the animate of that run holds, as long as a
\* request of that run can be called.
NoEffects ==
  [regen |-> FALSE, debounce |-> FALSE, anim |-> FALSE, wasAnimating |-> FALSE,
   loop |-> <<>>]

\* The render that follows a handler of the panel while the canvas has no
\* size: renderFrame returns at once, so of the effects only the debounce
\* effect changes anything; one that waits runs before the render.  The
\* handler called a state setter with a new value if called (without one
\* there is no render), and setLayers if layersSet: its list replaces one
\* that is queued.  The render of an empty layer list throws on
\* activeLayer.config: no boundary catches the error, the tree is unmounted
\* and the cleanup of the debounce effect clears the timer; paused, the
\* animation effect has no request to cancel.
PanelRender(called, layersSet) ==
  /\ IF called /\ layers' = <<>>
     THEN /\ debounceTimer' = NoTimer
          /\ unmounted' = TRUE
          /\ pendingUpdates' = NoUpdates
          /\ pendingEffects' = NoEffects
     ELSE /\ debounceTimer' =
               IF called
               THEN DebounceEffect(
                      DebounceEffect(debounceTimer, pendingEffects.debounce, now',
                                     activeLayer.config.cellSize),
                      ActiveLayerOf(layers', activeLayerId').config.cellSize
                        # activeLayer.config.cellSize,
                      now', ActiveLayerOf(layers', activeLayerId').config.cellSize)
               ELSE debounceTimer
          /\ unmounted' = unmounted
          /\ pendingUpdates' = IF layersSet
                               THEN [pendingUpdates EXCEPT !.layers = <<>>]
                               ELSE pendingUpdates
          /\ pendingEffects' = IF called THEN NoEffects ELSE pendingEffects
  /\ UNCHANGED <<canvasSize, debouncedCellSize, dropsRef, randomSeedsRef, drops,
                 randomSeeds, refsCaptured, isAnimating, currentFrame,
                 frameCounter, lastFrameTime, rafQueue, passLog, passes,
                 regenerated, drawn, uploads>>

EngineUnmounted ==
  /\ canvasSize = [width |-> 0, height |-> 0]
  /\ debouncedCellSize = 12
  /\ debounceTimer = Timer(Epoch, DEFAULT_LAYER_CONFIG.cellSize)
  /\ dropsRef = <<>>
  /\ randomSeedsRef = <<>>
  /\ drops = <<>>
  /\ randomSeeds = <<>>
  /\ refsCaptured = TRUE
  /\ isAnimating = FALSE
  /\ currentFrame = 0
  /\ frameCounter = 0
  /\ lastFrameTime = 0
  /\ rafQueue = <<>>
  /\ unmounted = FALSE
  /\ passLog = <<>>
  /\ passes = <<>>
  /\ regenerated = FALSE
  /\ drawn = NotDrawn
  /\ uploads = {}
  /\ pendingUpdates = NoUpdates
  /\ pendingEffects = NoEffects

(***************************************************************************)
(* The layer manager on its own: the operations the layer panel issues,    *)
(* one user event at a time, and the passing of time.                      *)
(***************************************************************************)
\* Patterns the pattern selector is exercised with in the layer manager runs.
PanelPatterns == {"rain", "static"}

InitLayers ==
  /\ layers = <<NewLayer(InitialLayerId, 1)>>
  /\ activeLayerId = InitialLayerId
  /\ expandedLayerIds = {InitialLayerId}
  /\ now = Epoch
  /\ error = FALSE
  /\ lastOp = NoOp
  /\ EngineUnmounted

ClockTick ==
  /\ ~error
  /\ now < Epoch + MaxClockTicks
  /\ now' = now + 1
  /\ lastOp' = NoOp
  /\ UNCHANGED <<layers, activeLayerId, expandedLayerIds, error, engineVars>>

AddLayer ==
  /\ ~error
  /\ ~unmounted
  /\ addLayer
  /\ UNCHANGED now
  /\ PanelRender(layers' # layers, layers' # layers)

\* The delete button of a layer row, or a call with an id no layer has.
RemoveLayer ==
  /\ ~error
  /\ ~unmounted
  /\ \E layerId \in LayerIds(layers) \cup {0} : removeLayer(layerId)
  /\ UNCHANGED now
  /\ PanelRender(Len(layers) # 1, Len(layers) # 1)

\* The pattern selector of the active layer.
UpdateActiveLayerConfig ==
  /\ ~error
  /\ ~unmounted
  /\ \E p \in PanelPatterns : updateActiveLayerConfig([pattern |-> p])
  /\ UNCHANGED now
  /\ PanelRender(TRUE, TRUE)

\* The eye button of a layer row: { visible: !layer.visible }.
UpdateLayerProperty ==
  /\ ~error
  /\ ~unmounted
  /\ \E i \in 1..Len(layers) :
       updateLayerProperty(layers[i].id, [visible |-> ~layers[i].visible])
  /\ UNCHANGED now
  /\ PanelRender(TRUE, TRUE)

\* A drop on row toIndex of the layer dragged from fromIndex; findIndex
\* gives -1 when the dragged layer is no longer in the list.
ReorderLayers ==
  /\ ~error
  /\ ~unmounted
  /\ \E fromIndex \in (-1)..(Len(layers) - 1), toIndex \in 0..(Len(layers) - 1) :
       reorderLayers(fromIndex, toIndex)
  /\ UNCHANGED now
  /\ PanelRender(TRUE, TRUE)

\* A click on a layer row: onActivate(); onToggleExpand().
ActivateLayer ==
  /\ ~error
  /\ ~unmounted
  /\ \E i \in 1..Len(layers) :
       /\ lastOp' = NoOp
       /\ activeLayerId' = layers[i].id
       /\ expandedLayerIds' =
            IF layers[i].id \in expandedLayerIds
              THEN expandedLayerIds \ {layers[i].id}
              ELSE expandedLayerIds \cup {layers[i].id}
  /\ UNCHANGED <<layers, error, now>>
  /\ PanelRender(TRUE, FALSE)

NextLayers ==
  \/ ClockTick
  \/ AddLayer
  \/ RemoveLayer
  \/ UpdateActiveLayerConfig
  \/ UpdateLayerProperty
  \/ ReorderLayers
  \/ ActivateLayer

SpecLayers == InitLayers /\ [][NextLayers]_vars

(***************************************************************************)
(* useDrops: what a regeneration produces                                  *)
(***************************************************************************)
\* Values 10 + Math.random() * 20 is sampled at, in hundredths.
LengthSamples == {1000}
\* Values Math.random() is sampled at for a drop's start, in percent of rows.
StartSamples == {0}
\* Triplets of Math.random() values a seed is sampled at, in percent.
SeedSamples == {[r1 |-> 10, r2 |-> 50, r3 |-> 90]}

\* The arrays the useDrops effect builds for a grid: cols drops, the i-th
\* with x = i, and cols * rows seeds.
GeneratedDrops(size, cellSize) ==
  LET cols == GridCols(size, cellSize)
      rows == GridRows(size, cellSize)
  IN  { [ i \in 1..cols |->
            [x |-> i - 1,
             y |-> DoubleMul(Hundredth[c[i][1]], DoubleOfRatio(rows, 1)),
             speed |-> c[i][2],
             length |-> c[i][3]] ] :
        c \in [1..cols -> StartSamples \X SpeedSamples \X LengthSamples] }

GeneratedSeeds_OnePerColumn(size, cellSize) ==
  [ 1..GridCols(size, cellSize) -> SeedSamples ]

GeneratedSeeds(size, cellSize) ==
  [ 1..(GridCols(size, cellSize) * GridRows(size, cellSize)) -> SeedSamples ]

(***************************************************************************)
(* The renderer on its own: composite passes requested for a layer list,   *)
(* a canvas and the arrays of one regeneration.                            *)
(***************************************************************************)
\* Frame numbers passes are requested for: 0..MaxFrame.
MaxFrame == 1
\* The canvas of the drop runs (one column, two rows of 12 px cells).
CanvasWidth == 12
CanvasHeight == 24
\* The width of the canvas of the compositing runs, narrower than a cell.
NarrowWidth == 6

OpacitySamples == {50, 100}
BgSamples == {"#0a0e27", "#ffffff"}
PatternSamples == {"rain", "static"}
CellSizeSamples == {12, 24}

PositionIds == <<InitialLayerId, Epoch, Epoch + 1>>

\* Layer lists that differ in visibility, opacity and background color.
CompositeLayerLists ==
  UNION { { [ i \in 1..n |->
                [ NewLayer(PositionIds[i], i) EXCEPT
                    !.visible = c[i][1], !.opacity = c[i][2],
                    !.config.bgColor = c[i][3] ] ] :
            c \in [1..n -> BOOLEAN \X OpacitySamples \X BgSamples] } :
          n \in 1..3 }

\* Lists of one or two layers that differ in visibility and pattern, and in
\* the cell size of the first layer (the active one), which the debounced cell size the
\* drops were generated for follows only after 150 ms.
DropLayerLists ==
  UNION { { [ i \in 1..n |->
                [ NewLayer(PositionIds[i], i) EXCEPT
                    !.visible = c[i][1], !.config.pattern = c[i][2],
                    !.config.cellSize = IF i = 1 THEN cs ELSE @ ] ] :
            c \in [1..n -> BOOLEAN \X PatternSamples], cs \in CellSizeSamples } :
          n \in 1..2 }

InitRenderer(lists, size) ==
  /\ layers \in lists
  /\ activeLayerId = layers[1].id
  /\ expandedLayerIds = {layers[1].id}
  /\ now = Epoch
  /\ error = FALSE
  /\ lastOp = NoOp
  /\ canvasSize = size
  /\ debouncedCellSize = 12
  /\ debounceTimer = NoTimer
  /\ dropsRef \in GeneratedDrops(size, debouncedCellSize)
  /\ randomSeedsRef \in GeneratedSeeds(size, debouncedCellSize)
  /\ drops = dropsRef
  /\ randomSeeds = randomSeedsRef
  /\ refsCaptured = TRUE
  /\ isAnimating = FALSE
  /\ currentFrame = 0
  /\ frameCounter = 0
  /\ lastFrameTime = 0
  /\ rafQueue = <<>>
  /\ unmounted = FALSE
  /\ passLog = <<>>
  /\ passes = <<>>
  /\ regenerated = FALSE
  /\ drawn = NotDrawn
  /\ uploads = {}
  /\ pendingUpdates = NoUpdates
  /\ pendingEffects = NoEffects

InitComposite ==
  InitRenderer(CompositeLayerLists,
               [width |-> NarrowWidth, height |-> CanvasHeight])

InitDrops ==
  InitRenderer(DropLayerLists,
               [width |-> CanvasWidth, height |-> CanvasHeight])

\* A call of renderFrame(frame) with cellSize the active layer's cell size.
RenderFrame ==
  /\ ~error
  /\ \E frame \in 0..MaxFrame,
        newSpeeds \in Redraws(drops, canvasSize, activeLayer.config.cellSize) :
       LET r == renderFrame(layers, canvasSize, drops, randomSeeds,
                            activeLayer.config.cellSize, frame, newSpeeds)
       IN  /\ passLog' = r.log
           /\ drops' = r.drops
           /\ dropsRef' = IF refsCaptured THEN r.drops ELSE dropsRef
           /\ passes' = IF r.log = <<>> THEN <<>>
                        ELSE <<PassRec(frame, dropsRef, dropsRef')>>
           /\ lastOp' = Op("renderFrame", frame, Len(layers))
  /\ UNCHANGED <<layerVars, now, error, canvasSize, debouncedCellSize,
                 debounceTimer, randomSeedsRef, randomSeeds, refsCaptured, animVars,
                 regenerated, drawn, uploads, pendVars>>

SpecComposite == InitComposite /\ [][RenderFrame]_vars

SpecDrops == InitDrops /\ [][RenderFrame]_vars

(***************************************************************************)
(* The engine mounted in DitheredPatternGenerator.  A callback of the host  *)
(* (the canvas init effect, a timer, an animation frame) runs to its end    *)
(* and queues its state updates; Render applies the updates that are queued *)
(* and FlushEffects runs the effects of that render whose dependencies      *)
(* changed, in the order the hooks are called.  A click or change handler   *)
(* is one step with the render and the effects React runs before the event  *)
(* returns.                                                                 *)
(***************************************************************************)
\* toggleAnimation calls issued from one handler, before the next render.
MaxBatch == 2
\* The frame counter of the mounted engine stays in -MaxCounter..MaxCounter.
MaxCounter == 10
\* Milliseconds the clock of the ticks runs for.
MaxAnimTime == 100
\* Milliseconds between a tick and the one before it.
TickDeltas == {25, 50}
\* Values the speed slider is set to, in milliseconds per frame.
AnimationSpeedSamples == {25, 50}

\* animationRef.current = requestAnimationFrame(animate): the request joins
\* the pending ones and is the one animationRef names; isActive of the
\* closure that made it is true.
Request(q) ==
  [i \in 1..Len(q) |-> [q[i] EXCEPT !.current = FALSE]] \o
  <<[active |-> TRUE, current |-> TRUE]>>

\* The cleanup of the animation effect without its cancelAnimationFrame.
Cleanup_NoCancel(q) ==
  [i \in 1..Len(q) |-> [q[i] EXCEPT !.active = FALSE]]

\* The cleanup of the animation effect: isActive = false, and the request
\* animationRef names is cancelled.
Cleanup(q) ==
  SelectSeq([i \in 1..Len(q) |-> [q[i] EXCEPT !.active = FALSE]],
            LAMBDA e : ~e.current)

\* A request that stays pending after its callback was called.
Dequeue_KeepsRequest(q, i) == q

\* The pending requests without the i-th, whose callback is being called.
Dequeue(q, i) == [j \in 1..(Len(q) - 1) |-> IF j < i THEN q[j] ELSE q[j + 1]]

\* The engine as a step finds it: the state values of the last render, the
\* refs, the arrays the renderFrame of the last render holds, and what
\* waits.  passes and regenerated record what the step does.
Engine ==
  [canvasSize |-> canvasSize, debouncedCellSize |-> debouncedCellSize,
   debounceTimer |-> debounceTimer, dropsRef |-> dropsRef,
   randomSeedsRef |-> randomSeedsRef, drops |-> drops,
   randomSeeds |-> randomSeeds, refsCaptured |-> refsCaptured,
   isAnimating |-> isAnimating, currentFrame |-> currentFrame,
   frameCounter |-> frameCounter, lastFrameTime |-> lastFrameTime,
   rafQueue |-> rafQueue, unmounted |-> unmounted, passLog |-> passLog,
   passes |-> <<>>, regenerated |-> FALSE, pendingUpdates |-> pendingUpdates,
   pendingEffects |-> pendingEffects]

\* The engine e is what the step leaves.
Leave(e) ==
  /\ canvasSize' = e.canvasSize
  /\ debouncedCellSize' = e.debouncedCellSize
  /\ debounceTimer' = e.debounceTimer
  /\ dropsRef' = e.dropsRef
  /\ randomSeedsRef' = e.randomSeedsRef
  /\ drops' = e.drops
  /\ randomSeeds' = e.randomSeeds
  /\ refsCaptured' = e.refsCaptured
  /\ isAnimating' = e.isAnimating
  /\ currentFrame' = e.currentFrame
  /\ frameCounter' = e.frameCounter
  /\ lastFrameTime' = e.lastFrameTime
  /\ rafQueue' = e.rafQueue
  /\ unmounted' = e.unmounted
  /\ passLog' = e.passLog
  /\ passes' = e.passes
  /\ regenerated' = e.regenerated
  /\ pendingUpdates' = e.pendingUpdates
  /\ pendingEffects' = e.pendingEffects
  /\ UNCHANGED <<drawn, uploads>>

\* A call renderFrame(frame) of the renderFrame of the last render, r what
\* the call left: the drops it updated are the ones of the ref, and the ones
\* a live animate holds, if these are the same array.
Passed(e, frame, r) ==
  IF r.log = <<>> THEN e
  ELSE [e EXCEPT
          !.drops = r.drops,
          !.dropsRef = IF e.refsCaptured THEN r.drops ELSE @,
          !.pendingEffects.loop =
            IF @ # <<>> /\ @[1].captured /\ e.refsCaptured
            THEN <<[@[1] EXCEPT !.drops = r.drops]>> ELSE @,
          !.passLog = r.log,
          !.passes = Append(@, PassRec(frame, e.dropsRef,
                                       IF e.refsCaptured THEN r.drops
                                       ELSE e.dropsRef))]

\* The tree is unmounted: the cleanups of the effects run (the animation
\* effect returned one if it ran with isAnimating true), and what waits is
\* dropped.
Unmounted(e) ==
  [e EXCEPT !.unmounted = TRUE,
            !.debounceTimer = NoTimer,
            !.rafQueue = IF e.isAnimating \/ e.pendingEffects.wasAnimating
                         THEN Cleanup(@) ELSE @,
            !.pendingUpdates = NoUpdates,
            !.pendingEffects = NoEffects]

\* A render of DitheredPatternGenerator with the state values size, dcs, cf
\* and anim and the active layer config is; ls and was are the layer list
\* and the active layer config of the render before, sizeSet and layersSet
\* say that setCanvasSize and setLayers were called (the value is a new
\* object).  useCanvasRenderer is handed dropsRef.current and
\* randomSeedsRef.current, and the effects whose dependencies changed wait.
Rendered(e, size, dcs, cf, anim, sizeSet, layersSet, ls, was, is) ==
  LET \* renderFrame: deps [canvasSize, layers, drops, cellSize,
      \* renderLayerToCanvas]
      rendererChanged == \/ layersSet
                         \/ sizeSet
                         \/ ~e.refsCaptured
                         \/ is.cellSize # was.cellSize
      \* animation effect: deps [isAnimating, animationSpeed, onRenderFrame]
      animEffect == \/ anim # e.isAnimating
                    \/ is.animationSpeed # was.animationSpeed
                    \/ rendererChanged
  IN  [e EXCEPT
         !.canvasSize = size,
         !.debouncedCellSize = dcs,
         !.currentFrame = cf,
         !.isAnimating = anim,
         !.drops = e.dropsRef,
         !.randomSeeds = e.randomSeedsRef,
         !.refsCaptured = TRUE,
         !.pendingEffects =
           [\* useDrops effect: deps [width, height, cellSize]
            regen |-> \/ size.width # e.canvasSize.width
                      \/ size.height # e.canvasSize.height
                      \/ dcs # e.debouncedCellSize,
            \* debounce effect: deps [activeLayer.config.cellSize]
            debounce |-> is.cellSize # was.cellSize,
            anim |-> animEffect,
            wasAnimating |-> animEffect /\ e.isAnimating,
            loop |-> IF animEffect /\ e.isAnimating
                     THEN <<[layers |-> ls, size |-> e.canvasSize,
                             drops |-> e.drops, seeds |-> e.randomSeeds,
                             cellSize |-> was.cellSize,
                             speed |-> was.animationSpeed,
                             captured |-> e.refsCaptured]>>
                     ELSE <<>>]]

\* What the effects that wait draw: the arrays of a regeneration and the
\* speeds of the drops the pass of the animation effect re-draws.
FlushInputs(e, cellSize) ==
  LET regen == /\ e.pendingEffects.regen
               /\ e.canvasSize.width # 0
               /\ e.canvasSize.height # 0
  IN  [newRef : IF regen
                THEN GeneratedDrops(e.canvasSize, e.debouncedCellSize)
                ELSE {e.dropsRef},
       newSeeds : IF regen
                  THEN GeneratedSeeds(e.canvasSize, e.debouncedCellSize)
                  ELSE {e.randomSeedsRef},
       newSpeeds : IF e.pendingEffects.anim /\ ~e.isAnimating
                   THEN Redraws(e.drops, e.canvasSize, cellSize)
                   ELSE {[i \in 1..Len(e.drops) |-> e.drops[i].speed]}]

\* The effects that wait run at time t, in the order the hooks are called:
\* the useDrops effect stores new arrays in the refs (it returns at once on
\* a canvas without area); the animation effect cleans up, then requests a
\* tick or, paused, makes the pass r with the renderFrame of the render; the
\* debounce effect sets its timer.  A pass that throws ends the effects: no
\* boundary catches the error and the tree is unmounted.
AfterEffects(e, t, cellSize, in, r) ==
  LET p == e.pendingEffects
      regen == p.regen /\ e.canvasSize.width # 0 /\ e.canvasSize.height # 0
      e1 == IF regen
            THEN [e EXCEPT !.dropsRef = in.newRef,
                           !.randomSeedsRef = in.newSeeds,
                           !.refsCaptured = FALSE,
                           !.regenerated = TRUE]
            ELSE e
      cleaned == IF p.wasAnimating THEN Cleanup(e.rafQueue) ELSE e.rafQueue
      e2 == IF ~p.anim THEN e1
            ELSE IF e.isAnimating
            THEN [e1 EXCEPT !.lastFrameTime = t,
                            !.rafQueue = Request(cleaned),
                            !.pendingEffects.loop = <<>>]
            ELSE Passed([e1 EXCEPT !.rafQueue = cleaned,
                                   !.pendingEffects.loop = <<>>],
                        e.frameCounter, r)
  IN  IF p.anim /\ ~e.isAnimating /\ r.aborted
      THEN Unmounted([e2 EXCEPT !.pendingEffects = NoEffects])
      ELSE [e2 EXCEPT
              !.debounceTimer = DebounceEffect(@, p.debounce, t, cellSize),
              !.pendingEffects = NoEffects]

\* The effects of the render of the layer list ls with the active layer
\* config active.
FlushedEffects(e, ls, active, t, in) ==
  AfterEffects(e, t, active.cellSize, in,
               renderFrame(ls, e.canvasSize, e.drops, e.randomSeeds,
                           active.cellSize, e.frameCounter, in.newSpeeds))

\* The render of the updates of a handler and the effects of that render.
SyncRender(e, cf, anim, layersSet, t, was, is) ==
  \E in \in FlushInputs(Rendered(e, e.canvasSize, e.debouncedCellSize, cf, anim,
                                 FALSE, layersSet, layers, was, is),
                        is.cellSize) :
    Leave(FlushedEffects(Rendered(e, e.canvasSize, e.debouncedCellSize, cf,
                                  anim, FALSE, layersSet, layers, was, is),
                         layers', is, t, in))

\* The end of a click or change handler that left the engine h and called
\* setCurrentFrame(cf), setIsAnimating(anim) or setLayers (layersSet): if a
\* state value is new, React runs the effects that wait, renders the updates
\* of the handler and runs the effects of that render.  An update of another
\* callback that is queued stays queued.
Sync(h, cf, anim, layersSet, t) ==
  IF ~(cf # h.currentFrame \/ anim # h.isAnimating \/ layersSet)
  THEN Leave(h)
  ELSE \E in \in FlushInputs(h, activeLayer.config.cellSize) :
         LET e == IF h.pendingEffects = NoEffects THEN h
                  ELSE FlushedEffects(h, layers, activeLayer.config, t, in)
         IN  IF e.unmounted THEN Leave(e)
             ELSE IF layers' = <<>> THEN Leave(Unmounted(e))
             ELSE SyncRender(e, cf, anim, layersSet, t, activeLayer.config,
                             ActiveLayerOf(layers', activeLayerId').config)

Mounted == canvasSize.width # 0 /\ canvasSize.height # 0 /\ ~unmounted

InitAnim == InitLayers

\* React renders the updates that are queued, after the effects of the
\* render before have run.
Render ==
  /\ ~error
  /\ ~unmounted
  /\ pendingUpdates # NoUpdates
  /\ pendingEffects = NoEffects
  /\ lastOp' = Op("render", 0, Len(layers))
  /\ layers' = IF pendingUpdates.layers # <<>> THEN pendingUpdates.layers[1]
               ELSE layers
  /\ UNCHANGED <<activeLayerId, expandedLayerIds, now, error>>
  /\ Leave(Rendered([Engine EXCEPT !.pendingUpdates = NoUpdates],
                    IF pendingUpdates.canvasSize # <<>>
                      THEN pendingUpdates.canvasSize[1] ELSE canvasSize,
                    IF pendingUpdates.debouncedCellSize # <<>>
                      THEN pendingUpdates.debouncedCellSize[1]
                      ELSE debouncedCellSize,
                    IF pendingUpdates.currentFrame # <<>>
                      THEN pendingUpdates.currentFrame[1] ELSE currentFrame,
                    isAnimating,
                    pendingUpdates.canvasSize # <<>>,
                    pendingUpdates.layers # <<>>,
                    layers, activeLayer.config,
                    ActiveLayerOf(layers', activeLayerId).config))

\* React runs the effects of the last render.
FlushEffects ==
  /\ ~error
  /\ ~unmounted
  /\ pendingEffects # NoEffects
  /\ lastOp' = Op("effects", 0, Len(layers))
  /\ UNCHANGED <<layerVars, now, error>>
  /\ \E in \in FlushInputs(Engine, activeLayer.config.cellSize) :
       Leave(FlushedEffects(Engine, layers, activeLayer.config, now, in))

\* The canvas init effect of the first render: setCanvasSize(size), size
\* being the offsetWidth and offsetHeight of the canvas element.
canvasInit(size) ==
  /\ lastOp' = Op("canvasInit", 0, Len(layers))
  /\ UNCHANGED <<layerVars, now, error>>
  /\ Leave([Engine EXCEPT !.pendingUpdates.canvasSize = <<size>>])

\* The first render is done and its canvas init effect has not run.
FirstRender ==
  /\ ~unmounted
  /\ canvasSize.width = 0
  /\ canvasSize.height = 0
  /\ pendingUpdates.canvasSize = <<>>
  /\ lastOp = NoOp

\* Mounting on a canvas narrower than a cell: the grid has no column.
CanvasInit ==
  /\ ~error
  /\ FirstRender
  /\ canvasInit([width |-> NarrowWidth, height |-> CanvasHeight])

\* toggleAnimation: setIsAnimating(!isAnimating), called calls times from
\* one handler; every call reads the isAnimating of the last render.
toggleAnimation(calls) ==
  /\ lastOp' = Op("toggleAnimation", calls, Len(layers))
  /\ UNCHANGED <<layerVars, now, error>>
  /\ Sync(Engine, currentFrame, ~isAnimating, FALSE, now)

ToggleAnimation ==
  /\ ~error
  /\ Mounted
  /\ \E calls \in 1..MaxBatch : toggleAnimation(calls)

\* What stepFrame leaves after onRenderFrame, r what the call left: the
\* state update is queued before the call, so it is rendered even if the
\* call throws, and it replaces an update of the displayed frame that is
\* queued.
Step(fc, r) ==
  Sync([Passed(Engine, fc, r) EXCEPT !.frameCounter = fc,
                                     !.pendingUpdates.currentFrame = <<>>],
       fc, isAnimating, FALSE, now)

\* stepFrame(direction): the counter moves, the displayed frame is set, and
\* the renderFrame of the last render is called.
stepFrame(direction) ==
  /\ lastOp' = Op("stepFrame", direction, Len(layers))
  /\ UNCHANGED <<layerVars, now, error>>
  /\ \E newSpeeds \in Redraws(drops, canvasSize, activeLayer.config.cellSize) :
       Step(frameCounter + direction,
            renderFrame(layers, canvasSize, drops, randomSeeds,
                        activeLayer.config.cellSize, frameCounter + direction,
                        newSpeeds))

\* The step buttons are disabled while the animation plays.
StepFrame ==
  /\ ~error
  /\ Mounted
  /\ ~isAnimating
  /\ \E direction \in {1, 0 - 1} :
       /\ frameCounter + direction <= MaxCounter
       /\ frameCounter + direction >= 0 - MaxCounter
       /\ stepFrame(direction)

\* if (elapsed >= animationSpeed)
TickAccepted(elapsed, animationSpeed) == elapsed >= animationSpeed

\* The displayed frame refreshed on every fifth frame.
DisplayedAfter_EveryFifth(fc, displayed) == IF fc % 5 = 0 THEN fc ELSE displayed

\* if (frameCounterRef.current % 10 === 0) setCurrentFrame(...): the frame
\* the display is to show after frame fc, displayed the frame it was to show.
DisplayedAfter(fc, displayed) == IF fc % 10 = 0 THEN fc ELSE displayed

\* The frame the display shows once the updates that are queued are rendered.
DisplayTarget ==
  IF pendingUpdates.currentFrame # <<>> THEN pendingUpdates.currentFrame[1]
  ELSE currentFrame

\* What a callback animate holds: the onRenderFrame and the animationSpeed
\* of the render whose animation effect defined it.  While the animation
\* effect of a later render waits, these are the ones of the render before.
Loop ==
  IF pendingEffects.loop # <<>> THEN pendingEffects.loop[1]
  ELSE [layers |-> layers, size |-> canvasSize, drops |-> drops,
        seeds |-> randomSeeds, cellSize |-> activeLayer.config.cellSize,
        speed |-> activeLayer.config.animationSpeed,
        captured |-> refsCaptured]

\* A call onRenderFrame(frame) of animate, r what the call left: the drops
\* it updated are the ones animate's renderFrame holds, and the ones of the
\* ref and of the renderFrame of the last render if these are the same
\* array.
LoopPassed(e, frame, r) ==
  IF e.pendingEffects.loop = <<>> THEN Passed(e, frame, r)
  ELSE IF r.log = <<>> THEN e
  ELSE [e EXCEPT
          !.pendingEffects.loop = <<[@[1] EXCEPT !.drops = r.drops]>>,
          !.dropsRef = IF e.pendingEffects.loop[1].captured THEN r.drops ELSE @,
          !.drops = IF e.pendingEffects.loop[1].captured /\ e.refsCaptured
                    THEN r.drops ELSE @,
          !.passLog = r.log,
          !.passes = Append(@, PassRec(frame, e.dropsRef,
                                       IF e.pendingEffects.loop[1].captured
                                       THEN r.drops ELSE e.dropsRef))]

\* The update of the displayed frame that is queued once setCurrentFrame
\* was called for target (none if it is the frame displayed).
QueuedFrame(target) == IF target = currentFrame THEN <<>> ELSE <<target>>

\* What animate leaves after onRenderFrame, r what the call left (the empty
\* pass if the tick was not accepted), baseline the value of lastFrameTime:
\* setCurrentFrame, lastFrameTimeRef.current = timestamp and
\* requestAnimationFrame(animate) follow the call, so an exception of the
\* call queues no update, leaves the baseline as it was and requests no
\* tick.
Tick(i, accepted, fc, timestamp, baseline, r) ==
  Leave([LoopPassed(Engine, fc, r) EXCEPT
           !.frameCounter = fc,
           !.pendingUpdates.currentFrame =
             IF accepted /\ ~r.aborted
             THEN QueuedFrame(DisplayedAfter(fc, DisplayTarget)) ELSE @,
           !.lastFrameTime = IF accepted /\ ~r.aborted THEN timestamp
                             ELSE baseline,
           !.rafQueue = IF rafQueue[i].active /\ ~r.aborted
                        THEN Request(Dequeue(rafQueue, i))
                        ELSE Dequeue(rafQueue, i)])

\* animate at the frame counter fc, with what the callback holds.
Animated(i, accepted, fc, timestamp, baseline, loop) ==
  \E newSpeeds \in Redraws(loop.drops, loop.size, loop.cellSize) :
    Tick(i, accepted, fc, timestamp, baseline,
         IF accepted
           THEN renderFrame(loop.layers, loop.size, loop.drops, loop.seeds,
                            loop.cellSize, fc, newSpeeds)
           ELSE [log |-> <<>>, drops |-> loop.drops, aborted |-> FALSE])

\* The callback of the i-th pending request is called with timestamp: it
\* returns at once if its isActive is false, else animate(timestamp) runs.
animate(i, timestamp) ==
  LET accepted == rafQueue[i].active
                    /\ TickAccepted(timestamp - lastFrameTime, Loop.speed)
  IN  /\ lastOp' = Op("animate", IF accepted THEN 1 ELSE 0, Len(layers))
      /\ now' = timestamp
      /\ UNCHANGED <<layerVars, error>>
      /\ Animated(i, accepted,
                  IF accepted THEN frameCounter + 1 ELSE frameCounter,
                  timestamp, lastFrameTime, Loop)

AnimateTick ==
  /\ ~error
  /\ \E i \in 1..Len(rafQueue), dt \in TickDeltas :
       /\ now + dt <= Epoch + MaxAnimTime
       /\ (now + dt - lastFrameTime >= Loop.speed) => frameCounter < MaxCounter
       /\ animate(i, now + dt)

\* The eye button of a layer row, with the engine mounted.
ToggleVisibility ==
  /\ ~error
  /\ Mounted
  /\ \E i \in 1..Len(layers) :
       updateLayerProperty(layers[i].id, [visible |-> ~layers[i].visible])
  /\ UNCHANGED now
  /\ Sync(Engine, currentFrame, isAnimating, TRUE, now)

\* The speed slider of the active layer, with the engine mounted.
EditAnimationSpeed ==
  /\ ~error
  /\ Mounted
  /\ \E speed \in AnimationSpeedSamples :
       /\ speed # activeLayer.config.animationSpeed
       /\ updateActiveLayerConfig([animationSpeed |-> speed])
  /\ UNCHANGED now
  /\ Sync(Engine, currentFrame, isAnimating, TRUE, now)

\* The component is unmounted: the effects that wait run, then the cleanups
\* of the effects.
Unmount ==
  /\ ~error
  /\ Mounted
  /\ lastOp' = Op("unmount", 0, Len(layers))
  /\ UNCHANGED <<layerVars, now, error>>
  /\ \E in \in FlushInputs(Engine, activeLayer.config.cellSize) :
       Leave(Unmounted(IF pendingEffects = NoEffects THEN Engine
                       ELSE FlushedEffects(Engine, layers, activeLayer.config,
                                           now, in)))

NextAnim ==
  \/ CanvasInit
  \/ Render
  \/ FlushEffects
  \/ ToggleAnimation
  \/ StepFrame
  \/ AnimateTick
  \/ ToggleVisibility
  \/ EditAnimationSpeed
  \/ Unmount

SpecAnim == InitAnim /\ [][NextAnim]_vars

(***************************************************************************)
(* The playing engine under a host that never stops calling the pending     *)
(* animation frame callbacks.  animate uses its timestamp only in           *)
(* timestamp - lastFrameTime, so every tick is written with the clock       *)
(* measured from the baseline it finds: the baseline reads Epoch and the     *)
(* timestamp Epoch + elapsed.                                               *)
(***************************************************************************)
\* The callback of the i-th pending request, called dt after the last event.
animateLive(i, dt) ==
  LET accepted == rafQueue[i].active
                    /\ TickAccepted(now + dt - lastFrameTime, Loop.speed)
  IN  /\ lastOp' = Op("animate", IF accepted THEN 1 ELSE 0, Len(layers))
      /\ now' = Epoch + (now + dt - lastFrameTime)
      /\ UNCHANGED <<layerVars, error>>
      /\ Animated(i, accepted,
                  IF accepted THEN frameCounter + 1 ELSE frameCounter,
                  Epoch + (now + dt - lastFrameTime), Epoch, Loop)

AnimateTickLive ==
  /\ ~error
  /\ \E i \in 1..Len(rafQueue), dt \in TickDeltas :
       /\ (now + dt - lastFrameTime >= Loop.speed) => frameCounter < MaxCounter
       /\ animateLive(i, dt)

NextLive ==
  \/ CanvasInit
  \/ Render
  \/ FlushEffects
  \/ ToggleAnimation
  \/ AnimateTickLive
  \/ ToggleVisibility
  \/ EditAnimationSpeed

\* requestAnimationFrame: a pending callback is called in the end; the
\* scheduler of React: a render and the effects that wait run in the end.
SpecLive ==
  /\ InitAnim
  /\ [][NextLive]_vars
  /\ WF_vars(AnimateTickLive)
  /\ WF_vars(Render)
  /\ WF_vars(FlushEffects)

(***************************************************************************)
(* The mounted engine under cell-size edits: the debounce timer and the     *)
(* regenerations of the drop array and the seed table.                      *)
(***************************************************************************)
\* Milliseconds the clock of the cell-size runs runs for.
MaxRegenTime == 400
\* Milliseconds the clock advances by between two events.
RegenDeltas == {50}
\* The width of the canvas of the cell-size runs (two columns of 12 px).
RegenWidth == 24

\* Mounting on a canvas of two columns and two rows of 12 px cells.
CanvasInitWide ==
  /\ ~error
  /\ FirstRender
  /\ canvasInit([width |-> RegenWidth, height |-> CanvasHeight])

\* Time passes; a timer that is due fires before more time passes.
AdvanceTime ==
  /\ ~error
  /\ Mounted
  /\ ~(debounceTimer.pending /\ debounceTimer.deadline <= now)
  /\ \E dt \in RegenDeltas :
       /\ now + dt <= Epoch + MaxRegenTime
       /\ now' = now + dt
  /\ lastOp' = Op("advance", 0, Len(layers))
  /\ passes' = <<>>
  /\ regenerated' = FALSE
  /\ UNCHANGED <<layerVars, error, renderVars, animVars, passLog, drawn, uploads,
                 pendVars>>

\* The cell size slider of the active layer; events are apart in time.
EditCellSize ==
  /\ ~error
  /\ Mounted
  /\ lastOp # NoOp
  /\ \E cellSize \in CellSizeSamples :
       /\ cellSize # activeLayer.config.cellSize
       /\ updateActiveLayerConfig([cellSize |-> cellSize])
  /\ UNCHANGED now
  /\ Sync(Engine, currentFrame, isAnimating, TRUE, now)

\* The timer of the debounce effect fires: setDebouncedCellSize(value).
DebounceFire ==
  /\ ~error
  /\ ~unmounted
  /\ debounceTimer.pending
  /\ debounceTimer.deadline <= now
  /\ lastOp' = Op("debounce", debounceTimer.value, Len(layers))
  /\ UNCHANGED <<layerVars, now, error>>
  /\ Leave([Engine EXCEPT
              !.debounceTimer = NoTimer,
              !.pendingUpdates.debouncedCellSize =
                IF debounceTimer.value = debouncedCellSize THEN <<>>
                ELSE <<debounceTimer.value>>])

NextRegen ==
  \/ CanvasInitWide
  \/ Render
  \/ FlushEffects
  \/ AdvanceTime
  \/ EditCellSize
  \/ DebounceFire

SpecRegen == InitAnim /\ [][NextRegen]_vars

(***************************************************************************)
(* The engine on a canvas without area: the canvas element reports a zero   *)
(* width or height when the canvas init effect runs, and the scheduler is   *)
(* used all the same.                                                       *)
(***************************************************************************)
ZeroSizes ==
  { [width |-> 0, height |-> 0], [width |-> 0, height |-> CanvasHeight],
    [width |-> CanvasWidth, height |-> 0] }

\* The canvas init effect has run and the canvas is without area.
Degenerate ==
  /\ lastOp # NoOp
  /\ ~unmounted
  /\ canvasSize.width = 0 \/ canvasSize.height = 0

CanvasInitZero ==
  /\ ~error
  /\ FirstRender
  /\ \E size \in ZeroSizes : canvasInit(size)

ToggleAnimationZero ==
  /\ ~error
  /\ Degenerate
  /\ \E calls \in 1..MaxBatch : toggleAnimation(calls)

StepFrameZero ==
  /\ ~error
  /\ Degenerate
  /\ ~isAnimating
  /\ \E direction \in {1, 0 - 1} :
       /\ frameCounter + direction <= MaxCounter
       /\ frameCounter + direction >= 0 - MaxCounter
       /\ stepFrame(direction)

NextZero ==
  \/ CanvasInitZero
  \/ Render
  \/ FlushEffects
  \/ ToggleAnimationZero
  \/ StepFrameZero
  \/ AnimateTick

SpecZero == InitAnim /\ [][NextZero]_vars

(***************************************************************************)
(* The engine on a canvas of one column, with the pattern selector: the     *)
(* step-back button takes the frame counter below 0, where a seed index of  *)
(* the static renderer is negative.  The animation is started once.         *)
(***************************************************************************)
\* The step-back button is pressed up to MaxStepsBack times.
MaxStepsBack == 2

\* Mounting on a canvas of one column and two rows of 12 px cells.
CanvasInitColumn ==
  /\ ~error
  /\ FirstRender
  /\ canvasInit([width |-> CanvasWidth, height |-> CanvasHeight])

\* The pattern selector of the active layer, with the engine mounted; the
\* selections are apart in time.
SelectPattern ==
  /\ ~error
  /\ Mounted
  /\ \E pattern \in PatternSamples, dt \in TickDeltas :
       /\ pattern # activeLayer.config.pattern
       /\ now + dt <= Epoch + MaxAnimTime
       /\ now' = now + dt
       /\ updateActiveLayerConfig([pattern |-> pattern])
  /\ Sync(Engine, currentFrame, isAnimating, TRUE, now')

\* The step-back button: stepFrame(-1).
StepBack ==
  /\ ~error
  /\ Mounted
  /\ ~isAnimating
  /\ frameCounter - 1 >= 0 - MaxStepsBack
  /\ stepFrame(0 - 1)

\* The play button, while the animation is paused.
Play ==
  /\ ~error
  /\ Mounted
  /\ ~isAnimating
  /\ toggleAnimation(1)

NextBack ==
  \/ CanvasInitColumn
  \/ Render
  \/ FlushEffects
  \/ SelectPattern
  \/ StepBack
  \/ Play
  \/ AnimateTick

SpecBack == InitAnim /\ [][NextBack]_vars

(***************************************************************************)
(* The resolver on its own: called for every cell of a grid, for layers     *)
(* with and without a brightness grid.                                      *)
(***************************************************************************)
InfluenceSamples == {0, 50, 80, 100}

\* Brightness grids (rows of percent values): 1 x 1, 2 x 2, 4 wide, 4 high.
ShapeSamples ==
  { <<<<0>>>>, <<<<100>>>>, <<<<0, 50>>, <<100, 30>>>>,
    <<<<10, 20, 30, 40>>>>, <<<<10>>, <<20>>, <<30>>, <<40>>>> }

ShapeDataSamples ==
  {NoShape} \cup { [present |-> TRUE, grid |-> g] : g \in ShapeSamples }

\* Canvas sizes of 1 to MaxGrid cells of the default cell size a side.
MaxGrid == 3

GridCanvasSizes ==
  { [width |-> c * DEFAULT_LAYER_CONFIG.cellSize,
     height |-> r * DEFAULT_LAYER_CONFIG.cellSize] : c, r \in 1..MaxGrid }

InitShape ==
  \E size \in GridCanvasSizes :
    InitRenderer({ << [ NewLayer(InitialLayerId, 1) EXCEPT
                          !.config.shapeInfluence = k, !.shapeData = sd ] >> :
                     k \in InfluenceSamples, sd \in ShapeDataSamples }, size)

\* getShapeBrightnessForLayer called for every cell of the canvas grid.
ResolveShape ==
  /\ drawn = NotDrawn
  /\ drawn' = [op |-> "shape",
               cells |-> ResolveGrid(GridCols(canvasSize, layers[1].config.cellSize),
                                     GridRows(canvasSize, layers[1].config.cellSize),
                                     layers[1])]
  /\ UNCHANGED <<layerVars, now, error, lastOp, renderVars, animVars, passLog,
                 passes, regenerated, uploads, pendVars>>

SpecShape == InitShape /\ [][ResolveShape]_vars

(***************************************************************************)
(* colorUtils: the static and the glitch pattern renderers.  Seed values    *)
(* and the gradient strength are held in percent and name doubles; the      *)
(* density, the shape brightness and a cell's brightness are doubles.  The  *)
(* glitch intensity is in millionths and the glitch offsets in 1/100000000  *)
(* pixel.                                                                   *)
(***************************************************************************)
\* layerConfig.symbolSet.split('').length
SymbolCount(symbolSet) == Len(symbolSet)

\* Math.floor(r * layerSymbols.length)
SymbolIndex(r, symbolSet) ==
  DoubleFloor(DoubleMul(Hundredth[r], DoubleOfRatio(SymbolCount(symbolSet), 1)))

\* A static cell's brightness with the gradient applied whatever the flag.
StaticBrightness_AlwaysGradient(config, seed, shapeBrightness) ==
  DoubleAdd(DoubleMul(DoubleMul(Hundredth[seed.r2], shapeBrightness),
                      Hundredth[config.gradientStrength]),
            DoubleMul(DoubleAdd(Hundredth[100],
                                DoubleNeg(Hundredth[config.gradientStrength])),
                      shapeBrightness))

\* r2 * shapeBrightness * gradientStrength + (1 - gradientStrength) * shapeBrightness
StaticBrightness(config, seed, shapeBrightness) ==
  IF config.gradient
    THEN DoubleAdd(DoubleMul(DoubleMul(Hundredth[seed.r2], shapeBrightness),
                             Hundredth[config.gradientStrength]),
                   DoubleMul(DoubleAdd(Hundredth[100],
                                       DoubleNeg(Hundredth[config.gradientStrength])),
                             shapeBrightness))
    ELSE shapeBrightness

\* (0.5 + r3 * 0.5) * shapeBrightness * gradientStrength
\*   + (1 - gradientStrength) * shapeBrightness
GlitchBrightness(config, seed, shapeBrightness) ==
  IF config.gradient
    THEN DoubleAdd(DoubleMul(DoubleMul(DoubleAdd(Hundredth[50],
                                                 DoubleMul(Hundredth[seed.r3],
                                                           Hundredth[50])),
                                       shapeBrightness),
                             Hundredth[config.gradientStrength]),
                   DoubleMul(DoubleAdd(Hundredth[100],
                                       DoubleNeg(Hundredth[config.gradientStrength])),
                             shapeBrightness))
    ELSE shapeBrightness

\* A fillText call: the cell, the text position without the glitch offsets,
\* the offsets added to it, the brightness the fill style and the glow are
\* derived from, and the index of the symbol.
FillText(i, j, cellSize, offsetX, offsetY, brightness, symbolIndex) ==
  [ i |-> i, j |-> j,
    x |-> i * cellSize + (cellSize \div 2),
    y |-> j * cellSize + (cellSize \div 2),
    offsetX |-> offsetX, offsetY |-> offsetY,
    brightness |-> brightness, symbolIndex |-> symbolIndex ]

\* What a pattern renderer leaves: the fillText calls in order, and whether
\* it was ended by an exception.
renderStaticPattern(layer, cols, rows, cellSize, frame, seeds) ==
  LET len == Len(seeds)
      index(n) == StaticSeedIndex(Cell(n, rows).i, Cell(n, rows).j, rows, frame, len)
      throws(n) == StaticCellThrows(n, rows, frame, len)
      shapeBrightness(n) ==
        getShapeBrightnessForLayer(Cell(n, rows).i, Cell(n, rows).j, cols, rows, layer)
      draws(n) ==
        DoubleLess(Hundredth[seeds[index(n) + 1].r1],
                   DoubleMul(layer.config.density, shapeBrightness(n)))
      call(n) ==
        FillText(Cell(n, rows).i, Cell(n, rows).j, cellSize, 0, 0,
                 StaticBrightness(layer.config, seeds[index(n) + 1], shapeBrightness(n)),
                 SymbolIndex(seeds[index(n) + 1].r3, layer.config.symbolSet))
      done == CellsBefore({ n \in 1..(cols * rows) : throws(n) }, cols * rows)
      cells == SelectSeq([n \in 1..done |-> n], draws)
  IN  [ calls |-> [c \in 1..Len(cells) |-> call(cells[c])],
        aborted |-> done < cols * rows ]

\* floor(((Math.sin(frame * 0.5) + 1) / 2) * 1000000) for the frames
\* FirstSineFrame, FirstSineFrame + 1, ...
FirstSineFrame == 0 - 4

SineTable ==
  << 45351, 1252, 79264, 260287, 500000, 739712, 920735, 998747, 954648,
     799236, 570560, 324608, 121598, 11234, 20537, 147229, 360292, 607559,
     828493, 968999, 994679, 899243, 706059, 462424, 227989, 60152, 4, 62273,
     231713, 466839, 710083, 901892, 995303, 967447, 825143, 603233, 356048,
     144107, 19301, 12186, 124506, 328759, 574938, 802769, 956472, 998414,
     918327, 735819, 495574, 256412, 76889, 958, 47210, 204321, 433824,
     679529, 881279, 989678, 978187, 849620, 635452, 388122, 168183, 29484,
     5984, 103436, 297981, 541987, 775713, 941935, 999955, 935570, 764541,
     528743, 285908, 95490, 4110, 34141, 178230, 401100, 648184, 858987,
     981897, 986822, 872556, 667075, 420688, 193719, 41739 >>

\* isGlitching ? (Math.sin(frame * 0.5) + 1) / 2 : 0
GlitchIntensity(frame) ==
  IF IsGlitching(frame) THEN SineTable[frame - FirstSineFrame + 1] ELSE 0

\* The share of Math.random() values below which a cell is displaced.
GlitchShare == 15

renderGlitchPattern(layer, cols, rows, cellSize, frame, seeds) ==
  LET len == Len(seeds)
      index(n) == BaseSeedIndex(Cell(n, rows).i, Cell(n, rows).j, rows, len)
      glitchIndex(n) == GlitchSeedIndex(index(n), frame, len)
      throws(n) == GlitchCellThrows(n, rows, frame, len)
      shouldGlitch(n) ==
        IsGlitching(frame) /\ seeds[glitchIndex(n) + 1].r1 < GlitchShare
      offsetX(n) ==
        IF shouldGlitch(n)
          THEN (seeds[glitchIndex(n) + 1].r2 - 50) * 30 * GlitchIntensity(frame)
          ELSE 0
      offsetY(n) ==
        IF shouldGlitch(n)
          THEN (seeds[glitchIndex(n) + 1].r3 - 50) * 10 * GlitchIntensity(frame)
          ELSE 0
      shapeBrightness(n) ==
        getShapeBrightnessForLayer(Cell(n, rows).i, Cell(n, rows).j, cols, rows, layer)
      draws(n) ==
        DoubleLess(Hundredth[seeds[index(n) + 1].r2],
                   DoubleMul(layer.config.density, shapeBrightness(n)))
      call(n) ==
        FillText(Cell(n, rows).i, Cell(n, rows).j, cellSize, offsetX(n), offsetY(n),
                 GlitchBrightness(layer.config, seeds[index(n) + 1], shapeBrightness(n)),
                 SymbolIndex(seeds[index(n) + 1].r1, layer.config.symbolSet))
      done == CellsBefore({ n \in 1..(cols * rows) : throws(n) }, cols * rows)
      cells == SelectSeq([n \in 1..done |-> n], draws)
  IN  [ calls |-> [c \in 1..Len(cells) |-> call(cells[c])],
        aborted |-> done < cols * rows ]

(***************************************************************************)
(* The pattern renderers on their own: a static or a glitch layer drawn     *)
(* for a frame number on the grid of the canvas, with the seed table of     *)
(* the grid's regeneration.                                                 *)
(***************************************************************************)
\* Frame numbers the scheduler hands to a pass: stepFrame(-1) takes the
\* counter below 0.
MaxBackFrame == 2
MaxPatternFrame == 81

PatternFrames == (0 - MaxBackFrame)..MaxPatternFrame

\* Triplets of Math.random() values of a seed, in percent.
PatternSeedSamples ==
  { [r1 |-> 10, r2 |-> 50, r3 |-> 90], [r1 |-> 99, r2 |-> 0, r3 |-> 0] }

DensitySamples == {Hundredth[70], Hundredth[100]}

\* One column of one or two cells of the default cell size.
PatternCanvasSizes ==
  { [width |-> CanvasWidth, height |-> h] : h \in {CanvasWidth, CanvasHeight} }

PatternLayers ==
  { [ NewLayer(InitialLayerId, 1) EXCEPT
        !.config.pattern = p, !.config.density = d, !.config.gradient = g,
        !.shapeData = sd ] :
      p \in {"static", "glitch"}, d \in DensitySamples, g \in BOOLEAN,
      sd \in {NoShape, [present |-> TRUE, grid |-> <<<<50>>>>]} }

InitPatterns ==
  /\ layers \in { <<l>> : l \in PatternLayers }
  /\ activeLayerId = layers[1].id
  /\ expandedLayerIds = {layers[1].id}
  /\ now = Epoch
  /\ error = FALSE
  /\ lastOp = NoOp
  /\ canvasSize \in PatternCanvasSizes
  /\ debouncedCellSize = DEFAULT_LAYER_CONFIG.cellSize
  /\ debounceTimer = NoTimer
  /\ dropsRef \in GeneratedDrops(canvasSize, debouncedCellSize)
  /\ randomSeedsRef \in [ 1..(GridCols(canvasSize, debouncedCellSize)
                               * GridRows(canvasSize, debouncedCellSize))
                            -> PatternSeedSamples ]
  /\ drops = dropsRef
  /\ randomSeeds = randomSeedsRef
  /\ refsCaptured = TRUE
  /\ isAnimating = FALSE
  /\ currentFrame = 0
  /\ frameCounter = 0
  /\ lastFrameTime = 0
  /\ rafQueue = <<>>
  /\ unmounted = FALSE
  /\ passLog = <<>>
  /\ passes = <<>>
  /\ regenerated = FALSE
  /\ drawn = NotDrawn
  /\ uploads = {}
  /\ pendingUpdates = NoUpdates
  /\ pendingEffects = NoEffects

\* The switch of renderLayerToCanvas over layer.config.pattern, for the two
\* renderers whose cells are modelled; of the cases 'rain', 'wave' and
\* 'pulse' the model has the reads of the seed table (renderLayerThrows).
renderPattern(layer, size, frame, seeds) ==
  LET cols == GridCols(size, layer.config.cellSize)
      rows == GridRows(size, layer.config.cellSize)
  IN  CASE layer.config.pattern = "static" ->
             renderStaticPattern(layer, cols, rows, layer.config.cellSize, frame, seeds)
        [] layer.config.pattern = "glitch" ->
             renderGlitchPattern(layer, cols, rows, layer.config.cellSize, frame, seeds)

\* renderLayerToCanvas(layer, canvas, frame) for the layer and a frame number.
RenderPattern ==
  /\ drawn = NotDrawn
  /\ \E frame \in PatternFrames :
       LET r == renderPattern(layers[1], canvasSize, frame, randomSeeds)
       IN  drawn' = [op |-> layers[1].config.pattern, frame |-> frame,
                     calls |-> r.calls, aborted |-> r.aborted]
  /\ UNCHANGED <<layerVars, now, error, lastOp, renderVars, animVars, passLog,
                 passes, regenerated, uploads, pendVars>>

SpecPatterns == InitPatterns /\ [][RenderPattern]_vars

(***************************************************************************)
(* The control panel: the inputs through which a layer's configuration is   *)
(* edited.  A glyph outside ASCII is written as the first letter of its     *)
(* preset's name, so every symbol set keeps its length.                     *)
(***************************************************************************)
symbolPresets ==
  [ Binary |-> "01",
    Matrix |-> "01MMMMMMMMMMMMMMMMMMMMMMMMMMMMMMMMMMMMMMMMMMMMM",
    Tech |-> "TTTTTTTTTTTTTTTTTTTTTT",
    Dots |-> ".:;+=xX$&#@",
    Arrows |-> "AAAAAAAAAAAAAAA",
    Geometric |-> "GGGGGGGGGGGG",
    Lines |-> "LLLLLLLLLLLLLLLLLLLLLL",
    Custom |-> "01" ]

\* Object.keys(symbolPresets).filter(k => k !== 'Custom'), in key order.
RandomPresetKeys ==
  <<"Binary", "Matrix", "Tech", "Dots", "Arrows", "Geometric", "Lines">>

\* constants.ts patternTypes.
patternTypes == <<"rain", "wave", "static", "glitch", "pulse">>

\* symbolPresets[preset] || symbolSet
handlePresetChange(preset, symbolSet) ==
  IF preset \in DOMAIN symbolPresets /\ symbolPresets[preset] # ""
    THEN symbolPresets[preset] ELSE symbolSet

\* The text input passing on whatever was typed, the empty text included.
symbolInput_NoFallback(value) == value

\* e.target.value || '01'
symbolInput(value) == IF value = "" THEN "01" ELSE value

\* The values an <input type="range" min max step> reports.
RangeValues(min, max, step) ==
  { min + k * step : k \in 0..((max - min) \div step) }

\* `${Math.random() * 360}` for the values 0, 0.01, ..., 0.99 of Math.random():
\* the product as a double, written with the fewest digits that name it.
HueText ==
  << "0", "3.6", "7.2", "10.799999999999999", "14.4", "18",
     "21.599999999999998", "25.200000000000003", "28.8", "32.4", "36",
     "39.6", "43.199999999999996", "46.800000000000004",
     "50.400000000000006", "54", "57.6", "61.2", "64.8", "68.4", "72",
     "75.6", "79.2", "82.8", "86.39999999999999", "90", "93.60000000000001",
     "97.2", "100.80000000000001", "104.39999999999999", "108", "111.6",
     "115.2", "118.80000000000001", "122.4", "125.99999999999999", "129.6",
     "133.2", "136.8", "140.4", "144", "147.6", "151.2", "154.8", "158.4",
     "162", "165.6", "169.2", "172.79999999999998", "176.4", "180", "183.6",
     "187.20000000000002", "190.8", "194.4", "198.00000000000003",
     "201.60000000000002", "205.2", "208.79999999999998",
     "212.39999999999998", "216", "219.6", "223.2", "226.8", "230.4", "234",
     "237.60000000000002", "241.20000000000002", "244.8",
     "248.39999999999998", "251.99999999999997", "255.6", "259.2", "262.8",
     "266.4", "270", "273.6", "277.2", "280.8", "284.40000000000003", "288",
     "291.6", "295.2", "298.8", "302.4", "306", "309.6", "313.2", "316.8",
     "320.4", "324", "327.6", "331.2", "334.8", "338.4", "342",
     "345.59999999999997", "349.2", "352.8", "356.4" >>

\* randomize: the configuration update built from six Math.random() values
\* (in percent, multiples of 5).
randomize(r) ==
  [ symbolSet |->
      symbolPresets[RandomPresetKeys[
        DoubleFloor(DoubleMul(Hundredth[r[1]],
                              DoubleOfRatio(Len(RandomPresetKeys), 1))) + 1]],
    density |-> DoubleAdd(Hundredth[30], DoubleMul(Hundredth[r[3]], Hundredth[60])),
    pattern |->
      patternTypes[DoubleFloor(DoubleMul(Hundredth[r[2]],
                                         DoubleOfRatio(Len(patternTypes), 1))) + 1],
    color |-> "hsl(" \o HueText[r[4] + 1] \o ", 100%, 50%)",
    gradient |-> r[5] > 30,
    glowEffect |-> r[6] > 30 ]

(***************************************************************************)
(* The configuration boundary on its own: the panel's inputs applied to a   *)
(* list of one or two layers, one user event at a time.                     *)
(***************************************************************************)
\* What is typed into the symbol field: everything deleted, or two letters.
SymbolTextSamples == {"", "ab"}
PresetSamples == {"Custom", "Dots"}
CellSizeSliderSamples == {6, 24}
OpacitySliderSamples == {0}
\* What the color picker reports.
ColorPickerSamples == {"#ff0000"}
\* Sequences of six Math.random() values, in percent.
RandomizeSamples == { <<95, 60, 50, 50, 95, 20>> }

InitConfig ==
  /\ layers \in { <<NewLayer(InitialLayerId, 1)>>,
                  <<NewLayer(InitialLayerId, 1), NewLayer(Epoch, 2)>> }
  /\ activeLayerId = layers[Len(layers)].id
  /\ expandedLayerIds = LayerIds(layers)
  /\ now = Epoch
  /\ error = FALSE
  /\ lastOp = NoOp
  /\ EngineUnmounted

\* SymbolControls: the custom symbols text input.
SymbolInput ==
  /\ \E value \in SymbolTextSamples :
       updateActiveLayerConfig([symbolSet |-> symbolInput(value)])
  /\ UNCHANGED now
  /\ PanelRender(TRUE, TRUE)

\* SymbolControls: the preset selector.
PresetChange ==
  /\ \E preset \in PresetSamples :
       updateActiveLayerConfig(
         [symbolSet |-> handlePresetChange(preset, activeLayer.config.symbolSet)])
  /\ UNCHANGED now
  /\ PanelRender(TRUE, TRUE)

\* AppearanceControls: the cell size slider.
CellSizeSlider ==
  /\ \E value \in CellSizeSliderSamples \cap RangeValues(6, 24, 2) :
       updateActiveLayerConfig([cellSize |-> value])
  /\ UNCHANGED now
  /\ PanelRender(TRUE, TRUE)

\* AppearanceControls: the color picker.
ColorPicker ==
  /\ \E value \in ColorPickerSamples : updateActiveLayerConfig([color |-> value])
  /\ UNCHANGED now
  /\ PanelRender(TRUE, TRUE)

\* LayerItem: the opacity slider of an expanded layer row.
OpacitySlider ==
  /\ \E i \in 1..Len(layers), value \in OpacitySliderSamples \cap RangeValues(0, 100, 5) :
       /\ layers[i].id \in expandedLayerIds
       /\ updateLayerProperty(layers[i].id, [opacity |-> value])
  /\ UNCHANGED now
  /\ PanelRender(TRUE, TRUE)

\* The randomize button.
Randomize ==
  /\ \E r \in RandomizeSamples : updateActiveLayerConfig(randomize(r))
  /\ UNCHANGED now
  /\ PanelRender(TRUE, TRUE)

NextConfig ==
  \/ SymbolInput
  \/ PresetChange
  \/ CellSizeSlider
  \/ ColorPicker
  \/ OpacitySlider
  \/ Randomize
  \/ ActivateLayer

SpecConfig == InitConfig /\ [][NextConfig]_vars

(***************************************************************************)
(* Image uploads: onImageUpload starts reading the file and returns; the    *)
(* callback it passed is called when the image has loaded, with the         *)
(* activeLayerId and the updateLayerProperty of the render the upload was   *)
(* started in.                                                              *)
(***************************************************************************)
\* Uploads in flight at a time, from the choice of the file to the render of
\* the list the completion sets.
MaxUploads == 1

\* The image of an upload (1 stands for the HTMLImageElement) and the
\* brightness map processShapeImage computes from it.
UploadedShape == [shapeImage |-> 1, shapeData |-> [present |-> TRUE, grid |-> <<<<50>>>>]]

\* layers.map(layer => layer.id === layerId ? {...layer, ...updates} : layer)
\* over the layer list ls a closure holds.
MapLayerProperty(ls, layerId, updates) ==
  [ i \in 1..Len(ls) |->
      IF ls[i].id = layerId
        THEN [ f \in DOMAIN ls[i] |->
                 IF f \in DOMAIN updates THEN updates[f] ELSE ls[i][f] ]
        ELSE ls[i] ]

\* The callback of handleImageUpload: updateLayerProperty(activeLayerId,
\* {shapeImage, shapeData}) of the closure the upload holds; its setLayers
\* queues the list, unless the tree is unmounted.
uploadComplete(upload) ==
  /\ upload.loaded
  /\ lastOp' = Op("uploadComplete", upload.target, Len(layers))
  /\ pendingUpdates' =
       IF unmounted THEN pendingUpdates
       ELSE [pendingUpdates EXCEPT
               !.layers = <<MapLayerProperty(upload.layers, upload.target,
                                             UploadedShape)>>]
  /\ uploads' = uploads \ {upload}
  /\ UNCHANGED <<layerVars, error>>

\* onImageUpload with a file chosen.
StartUpload ==
  /\ ~error
  /\ ~unmounted
  /\ Cardinality(uploads) + Len(pendingUpdates.layers) < MaxUploads
  /\ uploads' = uploads \cup {[target |-> activeLayerId, layers |-> layers,
                                loaded |-> FALSE]}
  /\ lastOp' = Op("uploadStart", activeLayerId, Len(layers))
  /\ UNCHANGED <<layerVars, now, error, renderVars, animVars, passLog, passes,
                 regenerated, drawn, pendVars>>

\* reader.onload: the Image is created and its src set; img.onload follows in
\* a later task.
ReaderLoad ==
  /\ ~error
  /\ \E upload \in uploads :
       /\ ~upload.loaded
       /\ uploads' = (uploads \ {upload}) \cup {[upload EXCEPT !.loaded = TRUE]}
       /\ lastOp' = Op("readerLoad", upload.target, Len(layers))
  /\ UNCHANGED <<layerVars, now, error, renderVars, animVars, passLog, passes,
                 regenerated, drawn, pendVars>>

\* img.onload: processShapeImage(img, onComplete).
CompleteUpload ==
  /\ ~error
  /\ \E upload \in uploads : uploadComplete(upload)
  /\ UNCHANGED <<now, renderVars, animVars, passLog, passes, regenerated, drawn,
                 pendingEffects>>

\* The clear button of the shape preview, shown while the active layer has
\* a shape image: clearShape().
ClearShape ==
  /\ ~error
  /\ ~unmounted
  /\ activeLayer.shapeImage # 0
  /\ updateLayerProperty(activeLayerId, [shapeImage |-> 0, shapeData |-> NoShape])
  /\ UNCHANGED now
  /\ PanelRender(TRUE, TRUE)

\* The layer panel used while an upload is in flight.
NextUpload ==
  \/ ClearShape
  \/ AddLayer
  \/ RemoveLayer
  \/ UpdateLayerProperty
  \/ ActivateLayer
  \/ StartUpload
  \/ ReaderLoad
  \/ CompleteUpload
  \/ Render
  \/ FlushEffects

SpecUpload == InitLayers /\ [][NextUpload]_vars

(***************************************************************************)
(* Properties of the layer manager                                         *)
(***************************************************************************)
\* C1: after every addLayer or removeLayer operation the layer list has at
\* least 1 and at most 3 members.
C1_LayerCountBounded == Len(layers) >= 1 /\ Len(layers) <= 3

\* C2: addLayer called while the list holds 3 layers, and removeLayer called
\* while it holds 1 layer, leave the layer list, the active layer id and the
\* expanded set unchanged and raise no error.
C2_CapacityViolationIsNoOp ==
  [][ ( \/ (lastOp'.op = "addLayer" /\ Len(layers) = 3)
        \/ (lastOp'.op = "removeLayer" /\ Len(layers) = 1) )
      => ( /\ layers' = layers
           /\ activeLayerId' = activeLayerId
           /\ expandedLayerIds' = expandedLayerIds
           /\ error' = FALSE ) ]_vars

\* addLayer has been called on a full list.
C2_Witness ==
  lastOp.op = "addLayer" /\ lastOp.len = 3 /\ Len(layers) = 3 /\ ~error

\* C3: when removeLayer(id) removes the active layer (list length >= 2) the
\* active layer becomes the layer at index 0 of the resulting list; when it
\* removes a non-active layer the active layer id is unchanged.
C3_ActiveAfterRemove ==
  [][ ( /\ lastOp'.op = "removeLayer"
        /\ Len(layers) >= 2
        /\ lastOp'.id \in LayerIds(layers) )
      => IF activeLayerId = lastOp'.id
           THEN Len(layers') >= 1 /\ activeLayerId' = layers'[1].id
           ELSE activeLayerId' = activeLayerId ]_vars

\* C4: no two layers of the list share an id.
C4_LayerIdsUnique ==
  \A i, j \in 1..Len(layers) : i # j => layers[i].id # layers[j].id

(***************************************************************************)
(* Properties of a composite pass                                          *)
(***************************************************************************)
Merges(log) == SelectSeq(log, LAMBDA e : e.op = "drawImage")

CanvasCalls(log) == SelectSeq(log, LAMBDA e : e.op # "dropUpdate")

VisibleCount(ls) == Cardinality({i \in 1..Len(ls) : ls[i].visible})

\* The list position of the k-th visible layer.
NthVisible(ls, k) ==
  CHOOSE i \in 1..Len(ls) :
    ls[i].visible /\ Cardinality({j \in 1..i : ls[j].visible}) = k

RemoveAt(ls, k) == [i \in 1..(Len(ls) - 1) |-> IF i < k THEN ls[i] ELSE ls[i + 1]]

PassStep == lastOp'.op = "renderFrame" /\ passLog' # <<>>

\* C5: a composite pass merges exactly the visible layers, in list order
\* (the layer at the first position is drawn first, after the fill), and each
\* merge of a layer's surface is drawn with that layer's own opacity.
C5_VisibleLayersMergedInListOrder ==
  [][PassStep =>
       LET m == Merges(passLog')
       IN  /\ passLog'[1].op = "fillRect"
           /\ Len(m) = VisibleCount(layers)
           /\ \A k \in 1..Len(m) :
                LET l == layers[NthVisible(layers, k)]
                IN  /\ passLog'[k + 1] = m[k]
                    /\ m[k].surface =
                         renderLayerToCanvas(l, canvasSize, drops, randomSeeds,
                                             lastOp'.id)
                    /\ m[k].globalAlpha = l.opacity]_vars

C5_Witness ==
  /\ lastOp.op = "renderFrame"
  /\ Len(layers) = 3
  /\ layers[1].visible /\ ~layers[2].visible /\ layers[3].visible
  /\ layers[1].opacity # layers[3].opacity
  /\ Len(Merges(passLog)) = 2
  /\ passLog[2].globalAlpha = layers[1].opacity
  /\ passLog[3].globalAlpha = layers[3].opacity

\* C6: a pass over a list that holds an invisible layer issues the same
\* canvas calls as a pass over the list with that layer removed, at whatever
\* position the layer is and whatever its background color.
C6_InvisibleLayerSameAsRemoved ==
  [][PassStep =>
       \A k \in 1..Len(layers) :
         (Len(layers) >= 2 /\ ~layers[k].visible) =>
           CanvasCalls(passLog') =
             MergeLayers(RemoveAt(layers, k), canvasSize, drops, randomSeeds,
                         lastOp'.id)]_vars

\* C7: each composite pass on a non-degenerate canvas applies the drop
\* mutation rule to every drop of the shared drop state (the array of
\* useDrops) exactly once, and the drop updates of a pass come after all its
\* merges, whatever the number, visibility and pattern of the layers.
C7_EachPassAdvancesSharedDropsOnce ==
  /\ \A k \in 1..Len(passes) :
       /\ Len(passes[k].after) = Len(passes[k].before)
       /\ \A i \in 1..Len(passes[k].before) :
            \E sp \in SpeedSamples :
              passes[k].after[i] =
                UpdateDrop(passes[k].before[i],
                           GridRows(canvasSize, activeLayer.config.cellSize), sp)
  /\ passes # <<>> =>
       \A j \in 1..Len(passLog) :
         passLog[j].op = "dropUpdate" <=> j > Len(CanvasCalls(passLog))

\* C8: after a pass every drop's y is at most rows + length, and a drop whose
\* advanced y exceeds that is put back to y = -length.
C8_DropWrap ==
  [][PassStep =>
       LET rows == GridRows(canvasSize, activeLayer.config.cellSize)
       IN  \A i \in 1..Len(drops) :
             LET limit(d) == DoubleAdd(DoubleOfRatio(rows, 1), Hundredth[d.length])
                 step == DoubleMul(Hundredth[drops[i].speed], Hundredth[30])
             IN  /\ ~DoubleLess(limit(drops'[i]), drops'[i].y)
                 /\ DoubleLess(limit(drops[i]), DoubleAdd(drops[i].y, step))
                      => drops'[i].y = DoubleNeg(Hundredth[drops[i].length])]_vars

C8_Witness ==
  /\ lastOp.op = "renderFrame"
  /\ Len(drops) >= 1
  /\ drops[1].y = DoubleNeg(Hundredth[drops[1].length])

(***************************************************************************)
(* Properties of the frame scheduler                                       *)
(***************************************************************************)
FlipTimes(b, n) == IF n % 2 = 0 THEN b ELSE ~b

\* C9: the scheduler starts Paused; every toggleAnimation call flips the
\* playing state, two calls issued back to back included (so n calls leave the
\* state flipped n times); no other operation changes the playing state.
C9_EveryToggleFlips ==
  /\ ~isAnimating
  /\ [][IF lastOp'.op = "toggleAnimation"
          THEN isAnimating' = FlipTimes(isAnimating, lastOp'.id)
          ELSE isAnimating' = isAnimating]_vars

\* C10: while Paused, stepFrame(d) changes the frame counter by exactly d,
\* sets the displayed frame to the new counter value and triggers exactly one
\* composite pass, rendered for the new frame number.
C10_StepFrameTriggersOnePass ==
  [][(lastOp'.op = "stepFrame" /\ ~isAnimating) =>
       /\ frameCounter' = frameCounter + lastOp'.id
       /\ currentFrame' = frameCounter'
       /\ Len(passes') = 1
       /\ passes'[1].frame = frameCounter']_vars

\* A step that is a tick called while Playing.
PlayingTick == lastOp'.op = "animate" /\ isAnimating

\* C11: while Playing, a tick with timestamp t advances the frame counter by
\* exactly 1, runs exactly one composite pass (for the new frame) and resets
\* the baseline to t if and only if t - baseline >= the active layer's
\* animationSpeed; otherwise counter, baseline and output are unchanged.  In
\* both cases exactly one next tick is requested.
C11_TickAdvancesIffIntervalElapsed ==
  [][PlayingTick =>
       /\ IF now' - lastFrameTime >= activeLayer.config.animationSpeed
          THEN /\ frameCounter' = frameCounter + 1
               /\ Len(passes') = 1
               /\ passes'[1].frame = frameCounter'
               /\ lastFrameTime' = now'
          ELSE /\ frameCounter' = frameCounter
               /\ lastFrameTime' = lastFrameTime
               /\ passes' = <<>>
               /\ passLog' = passLog
       /\ Len(rafQueue') = 1
       /\ rafQueue'[1].active
       /\ rafQueue'[1].current]_vars

\* C12: while Playing, a refresh of the displayed frame number is asked for
\* only by an advance whose new frame counter is a multiple of 10, and by
\* every such advance (for the new counter); the displayed number changes
\* only in the render of such a refresh, to the number asked for; whereas
\* every advance of the counter runs a composite pass for that frame.
C12_DisplayRefreshedEveryTenth ==
  [][isAnimating =>
       /\ ( /\ pendingUpdates'.currentFrame # pendingUpdates.currentFrame
            /\ pendingUpdates'.currentFrame # <<>> ) =>
            /\ lastOp'.op = "animate"
            /\ frameCounter' = frameCounter + 1
            /\ frameCounter' % 10 = 0
            /\ pendingUpdates'.currentFrame = <<frameCounter'>>
       /\ currentFrame' # currentFrame =>
            /\ lastOp'.op = "render"
            /\ pendingUpdates.currentFrame = <<currentFrame'>>
            /\ currentFrame' % 10 = 0
       /\ (frameCounter' # frameCounter /\ frameCounter' % 10 = 0) =>
            pendingUpdates'.currentFrame = <<frameCounter'>>
       /\ frameCounter' # frameCounter =>
            /\ Len(passes') = 1
            /\ passes'[1].frame = frameCounter']_vars

\* The refresh asked for by the advance to frame 10 is rendered.
C12_Witness ==
  /\ lastOp.op = "render"
  /\ isAnimating
  /\ frameCounter = 10
  /\ currentFrame = 10
  /\ passLog # <<>>

Stopped == ~isAnimating \/ unmounted

\* C13: after playback is stopped (toggle to Paused, or unmount) the pending
\* tick request is cancelled, so none is pending while stopped, and a tick
\* callback called while stopped neither moves the frame counter nor runs a
\* composite pass.
C13_NoTickAfterStop ==
  /\ [](Stopped => rafQueue = <<>>)
  /\ [][(lastOp'.op = "animate" /\ Stopped) =>
          /\ frameCounter' = frameCounter
          /\ passes' = <<>>]_vars

C13_Witness ==
  /\ lastOp.op = "toggleAnimation"
  /\ ~isAnimating
  /\ lastFrameTime >= Epoch
  /\ frameCounter >= 1
  /\ rafQueue = <<>>

\* C14: at every moment at most one tick request is pending, it is the one
\* animationRef names and its callback is live; while Playing on a mounted
\* engine exactly one is pending.  This holds across the restarts of the loop
\* that a change of interval or of the layers causes while Playing.
C14_AtMostOnePendingTick ==
  /\ Len(rafQueue) <= 1
  /\ \A i \in 1..Len(rafQueue) : rafQueue[i].active /\ rafQueue[i].current
  /\ (isAnimating /\ ~unmounted) => Len(rafQueue) = 1

C14_Witness ==
  /\ lastOp = NoOp
  /\ isAnimating
  /\ ~unmounted
  /\ now > Epoch
  /\ lastFrameTime = now
  /\ activeLayer.config.animationSpeed = 25
  /\ Len(rafQueue) = 1

(***************************************************************************)
(* Properties of the regenerations                                         *)
(***************************************************************************)
\* C15: after each regeneration for a canvas of non-zero width and height
\* and cell size c, the drop array holds exactly floor(width / c) drops, the
\* i-th (counted from 0) with x = i, and the seed table holds exactly
\* floor(width / c) * floor(height / c) triplets; so two regenerations for
\* the same (width, height, c) give arrays of the same lengths.
C15_RegeneratedLengths ==
  regenerated =>
    /\ canvasSize.width # 0 /\ canvasSize.height # 0
    /\ Len(dropsRef) = canvasSize.width \div debouncedCellSize
    /\ \A i \in 1..Len(dropsRef) : dropsRef[i].x = i - 1
    /\ Len(randomSeedsRef) =
         (canvasSize.width \div debouncedCellSize)
           * (canvasSize.height \div debouncedCellSize)

\* The regeneration for cell size 12 that follows the one for cell size 24:
\* the renderer holds the one drop of the 24 px grid.
C15_Witness ==
  /\ regenerated
  /\ lastOp.op = "effects"
  /\ debouncedCellSize = 12
  /\ Len(dropsRef) = 2
  /\ Len(randomSeedsRef) = 4
  /\ Len(drops) = 1

\* C16: the arrays are regenerated only by the effects of a render that
\* changes (canvas width, canvas height, debounced cell size), and are
\* regenerated by them; the debounced cell size changes only to the value
\* the debounce timer asked for, and the timer asks only for the active
\* layer's cell size, and only when that value was set at least 150 ms before
\* and has not changed since.  So edits less than 150 ms apart cause no
\* regeneration until 150 ms after the last one.
C16_CellSizeDebounced ==
  [][/\ regenerated' => pendingEffects.regen
     /\ (pendingEffects'.regen /\ ~pendingEffects.regen) =>
          \/ canvasSize'.width # canvasSize.width
          \/ canvasSize'.height # canvasSize.height
          \/ debouncedCellSize' # debouncedCellSize
     /\ (pendingEffects.regen /\ ~pendingEffects'.regen /\ ~unmounted') =>
          regenerated'
     /\ debouncedCellSize' # debouncedCellSize =>
          /\ pendingUpdates.debouncedCellSize = <<debouncedCellSize'>>
          /\ pendingEffects'.regen
     /\ ( /\ pendingUpdates'.debouncedCellSize # pendingUpdates.debouncedCellSize
          /\ pendingUpdates'.debouncedCellSize # <<>> ) =>
          /\ lastOp'.op = "debounce"
          /\ pendingUpdates'.debouncedCellSize = <<activeLayer.config.cellSize>>
          /\ activeLayer' = activeLayer
          /\ debounceTimer.pending
          /\ now' >= debounceTimer.deadline
          /\ debounceTimer.deadline >= Epoch + DebounceDelay]_vars

\* The regeneration for cell size 24, set 150 ms or more before.
C16_Witness ==
  /\ regenerated
  /\ lastOp.op = "effects"
  /\ debouncedCellSize = 24
  /\ activeLayer.config.cellSize = 24
  /\ Len(dropsRef) = 1
  /\ now >= Epoch + 250

(***************************************************************************)
(* Properties of the shape influence resolver                               *)
(***************************************************************************)
\* C17: for a layer without a brightness grid the resolver returns exactly 1
\* for every cell, whatever the shape influence.
C17_NoShapeResolvesToOne ==
  (drawn.op = "shape" /\ ~layers[1].shapeData.present)
    => \A n \in DOMAIN drawn.cells : drawn.cells[n].value = DoubleOfRatio(1, 1)

C17_Witness ==
  /\ drawn.op = "shape"
  /\ ~layers[1].shapeData.present
  /\ layers[1].config.shapeInfluence = 50
  /\ Len(drawn.cells) = MaxGrid * MaxGrid

\* A cell (i, j) lies inside the grid-centred shape when, after subtracting
\* floor((gridDim - shapeDim) / 2) per axis, it indexes the brightness grid.
InsideShape(i, j, cols, rows, grid) ==
  LET a == i - ((cols - Len(grid[1])) \div 2)
      b == j - ((rows - Len(grid)) \div 2)
  IN  a >= 0 /\ a < Len(grid[1]) /\ b >= 0 /\ b < Len(grid)

\* C18: with a brightness grid and shape influence k the resolver returns
\* 1 - k for a cell outside the centred shape and b * k + (1 - k) for a cell
\* inside it, b the grid's value there; the result lies in [1 - k, 1].
C18_ShapeResolvedByInfluence ==
  (drawn.op = "shape" /\ layers[1].shapeData.present)
    => LET k == DoubleOfRatio(layers[1].config.shapeInfluence, 100)
           one == DoubleOfRatio(1, 1)
           grid == layers[1].shapeData.grid
           cols == GridCols(canvasSize, layers[1].config.cellSize)
           rows == GridRows(canvasSize, layers[1].config.cellSize)
       IN  \A n \in DOMAIN drawn.cells :
             LET c == drawn.cells[n]
                 a == c.i - ((cols - Len(grid[1])) \div 2)
                 b == c.j - ((rows - Len(grid)) \div 2)
             IN  /\ ~DoubleLess(c.value, DoubleAdd(one, DoubleNeg(k)))
                 /\ ~DoubleLess(one, c.value)
                 /\ c.value
                      = IF InsideShape(c.i, c.j, cols, rows, grid)
                          THEN DoubleAdd(DoubleMul(DoubleOfRatio(grid[b + 1][a + 1], 100),
                                                   k),
                                         DoubleAdd(one, DoubleNeg(k)))
                          ELSE DoubleAdd(one, DoubleNeg(k))

\* A shape wider than the grid (negative offset) with a cell inside and a
\* shape narrower than the grid with a cell outside.
C18_Witness ==
  /\ drawn.op = "shape"
  /\ layers[1].shapeData.present
  /\ layers[1].config.shapeInfluence = 80
  /\ Len(layers[1].shapeData.grid[1]) = 4
  /\ GridCols(canvasSize, layers[1].config.cellSize) = 1
  /\ GridRows(canvasSize, layers[1].config.cellSize) = 3
  /\ \E n \in DOMAIN drawn.cells :
       drawn.cells[n].value
         = DoubleAdd(DoubleMul(Hundredth[30], Hundredth[80]),
                     DoubleAdd(Hundredth[100], DoubleNeg(Hundredth[80])))
  /\ \E n \in DOMAIN drawn.cells :
       drawn.cells[n].value = DoubleAdd(Hundredth[100], DoubleNeg(Hundredth[80]))

(***************************************************************************)
(* Properties of the pattern renderers                                      *)
(***************************************************************************)
\* C19: for every frame number whose residue mod 80 lies in [5, 30] or in
\* [35, 80) the glitch renderer displaces no cell (offsetX = offsetY = 0).
C19_NoJitterOutsideBurstWindows ==
  (drawn.op = "glitch"
     /\ (drawn.frame % 80 \in 5..30 \/ drawn.frame % 80 \in 35..79))
    => \A c \in DOMAIN drawn.calls :
         drawn.calls[c].offsetX = 0 /\ drawn.calls[c].offsetY = 0

\* C23: for every frame number the scheduler can reach, negative ones
\* included, the static and the glitch renderer index the seed table inside
\* [0, len) for every cell, so no render is ended by an exception.
C23_SeedIndexInsideTable ==
  (drawn.op \in {"static", "glitch"})
    => /\ ~drawn.aborted
       /\ LET rows == GridRows(canvasSize, layers[1].config.cellSize)
              cols == GridCols(canvasSize, layers[1].config.cellSize)
              len == Len(randomSeeds)
          IN  \A i \in 0..(cols - 1), j \in 0..(rows - 1) :
                IF drawn.op = "static"
                  THEN StaticSeedIndex(i, j, rows, drawn.frame, len) \in 0..(len - 1)
                  ELSE IsGlitching(drawn.frame)
                         => GlitchSeedIndex(BaseSeedIndex(i, j, rows, len),
                                            drawn.frame, len) \in 0..(len - 1)

\* C20: a static layer with density 1, no brightness grid and the gradient
\* off, drawn at a frame number >= 0 with a seed table of cols * rows
\* triplets, has every cell of the grid drawn, each with brightness 1.
C20_FullDensityStaticIsUniform ==
  LET cols == GridCols(canvasSize, layers[1].config.cellSize)
      rows == GridRows(canvasSize, layers[1].config.cellSize)
  IN  (drawn.op = "static"
         /\ layers[1].config.density = DoubleOfRatio(1, 1)
         /\ ~layers[1].shapeData.present
         /\ ~layers[1].config.gradient
         /\ drawn.frame >= 0
         /\ Len(randomSeeds) = cols * rows)
        => /\ ~drawn.aborted
           /\ Len(drawn.calls) = cols * rows
           /\ \A i \in 0..(cols - 1), j \in 0..(rows - 1) :
                \E c \in DOMAIN drawn.calls :
                  drawn.calls[c].i = i /\ drawn.calls[c].j = j
           /\ \A c \in DOMAIN drawn.calls :
                drawn.calls[c].brightness = DoubleOfRatio(1, 1)

\* Two cells, the frame offset wrapping around the table, and a seed whose r1
\* is the largest sampled.
C20_Witness ==
  /\ drawn.op = "static"
  /\ layers[1].config.density = DoubleOfRatio(1, 1)
  /\ ~layers[1].shapeData.present
  /\ ~layers[1].config.gradient
  /\ drawn.frame = MaxPatternFrame
  /\ Len(randomSeeds) = 2
  /\ randomSeeds[1].r1 = 99
  /\ Len(drawn.calls) = 2

(***************************************************************************)
(* Properties of the configuration boundary                                 *)
(***************************************************************************)
\* C21: whatever the panel's inputs were used for, every layer has a
\* non-empty symbol set, a cell size in [6, 24] and an opacity in [0, 1].
C21_LayersHoldValidatedConfig ==
  \A i \in 1..Len(layers) :
    /\ layers[i].config.symbolSet # ""
    /\ SymbolCount(layers[i].config.symbolSet) >= 1
    /\ layers[i].config.cellSize \in 6..24
    /\ layers[i].opacity \in 0..100

\* Both ends of the ranges, a randomized symbol set, and the default symbol
\* set in the layer whose symbol field was emptied.
C21_Witness ==
  /\ Len(layers) = 2
  /\ layers[1].config.cellSize = 6
  /\ layers[1].opacity = 0
  /\ layers[1].config.symbolSet = symbolPresets.Lines
  /\ layers[1].config.color # DEFAULT_LAYER_CONFIG.color
  /\ layers[2].config.cellSize = 24
  /\ layers[2].config.symbolSet = "01"
  /\ layers[2].config.pattern = "glitch"

\* '#' followed by six hexadecimal digits.
IsHexColor(c) ==
  /\ Len(c) = 7
  /\ SubSeq(c, 1, 1) = "#"
  /\ \A k \in 2..7 :
       SubSeq(c, k, k) \in {"0", "1", "2", "3", "4", "5", "6", "7", "8", "9",
                            "a", "b", "c", "d", "e", "f",
                            "A", "B", "C", "D", "E", "F"}

\* C30: after any sequence of configuration operations, randomize included,
\* every layer's foreground color is a '#rrggbb' string.
C30_ForegroundColorIsHex ==
  \A i \in 1..Len(layers) : IsHexColor(layers[i].config.color)

(***************************************************************************)
(* Properties of the engine on a canvas without area                        *)
(***************************************************************************)
\* C22: while the canvas width or height is 0 a composite pass draws nothing
\* and advances no drop, and the drop array and the seed table are not
\* regenerated.
C22_ZeroCanvasPassIsNoOp ==
  (canvasSize.width = 0 \/ canvasSize.height = 0)
    => /\ passLog = <<>>
       /\ passes = <<>>
       /\ ~regenerated
       /\ drops = <<>> /\ dropsRef = <<>>
       /\ randomSeeds = <<>> /\ randomSeedsRef = <<>>

\* A pass requested by a tick that advanced the counter, on a canvas with a
\* width and no height.
C22_Witness ==
  /\ canvasSize.width # 0
  /\ canvasSize.height = 0
  /\ lastOp = Op("animate", 1, Len(layers))
  /\ frameCounter = 2
  /\ passLog = <<>>

(***************************************************************************)
(* Properties of the arrays the passes read                                 *)
(***************************************************************************)
\* C24: every composite pass reads the seed table and the drop array of the
\* most recent regeneration: the surfaces it merges were rendered from the
\* table randomSeedsRef refers to, and it advances each drop of the array
\* dropsRef refers to.
C24_PassReadsLatestArrays ==
  passes # <<>> =>
    /\ refsCaptured
    /\ \A j \in 1..Len(passLog) :
         passLog[j].op = "drawImage"
           => passLog[j].surface.randomSeeds = randomSeedsRef
    /\ Cardinality({ j \in 1..Len(passLog) : passLog[j].op = "dropUpdate" })
         = Len(dropsRef)

(***************************************************************************)
(* Properties of image uploads                                              *)
(***************************************************************************)
\* C25: the completion of an upload changes only the target layer's
\* shapeImage and shapeData: the layer list it sets is the list of the last
\* render in everything else, so whatever was added, removed, reordered or
\* edited since the upload started is still there.
C25_UploadCompletionKeepsEdits ==
  [][(lastOp'.op = "uploadComplete" /\ pendingUpdates'.layers # <<>>) =>
       /\ Len(pendingUpdates'.layers[1]) = Len(layers)
       /\ \A i \in 1..Len(layers) :
            \A f \in DOMAIN layers[i] :
              (layers[i].id # lastOp'.id \/ f \notin {"shapeImage", "shapeData"})
                => pendingUpdates'.layers[1][i][f] = layers[i][f]]_vars

\* C26: after any sequence of layer operations and upload completions,
\* activeLayerId is the id of a layer of the list.
C26_ActiveLayerInList ==
  activeLayerId \in LayerIds(layers)

(***************************************************************************)
(* Further properties of the frame scheduler                                *)
(***************************************************************************)
\* C27: whenever the scheduler is Paused, the displayed frame number equals
\* the frame counter the passes are rendered for.
C27_PausedDisplayShowsCounter ==
  ~isAnimating => currentFrame = frameCounter

\* C28: while the scheduler stays Playing and the host keeps calling the
\* pending tick, the frame counter eventually advances, whatever layer or
\* configuration edits happen in between.
C28_PlayingCounterAdvances ==
  \A k \in 0..(MaxCounter - 1) :
    (Mounted /\ isAnimating /\ frameCounter = k)
      ~> (~isAnimating \/ frameCounter # k)

(***************************************************************************)
(* Reordering by drag and drop                                              *)
(***************************************************************************)
\* How many times x occurs in seq.
Occurrences(seq, x) == Cardinality({ i \in 1..Len(seq) : seq[i] = x })

\* seq without its element at 0-based index i.
AllBut(seq, i) ==
  [j \in 1..(Len(seq) - 1) |-> IF j <= i THEN seq[j] ELSE seq[j + 1]]

\* C29: reorderLayers(from, to) yields a permutation of the layer list for
\* every index pair a drop produces (to in 0..len-1; from in 0..len-1, or -1):
\* the length and the layers are unchanged, and when from is in range the
\* layer at from ends at to with the order of the other layers preserved.
C29_ReorderIsPermutation ==
  [][\A fromIndex \in (-1)..(Len(layers) - 1), toIndex \in 0..(Len(layers) - 1) :
       reorderLayers(fromIndex, toIndex) =>
         /\ Len(layers') = Len(layers)
         /\ \A i \in 1..Len(layers) :
              Occurrences(layers', layers[i]) = Occurrences(layers, layers[i])
         /\ fromIndex >= 0 =>
              /\ layers'[toIndex + 1] = layers[fromIndex + 1]
              /\ AllBut(layers', toIndex) = AllBut(layers, fromIndex)]_vars

\* A layer stands before one that was added before it, which only a drop
\* brings about.
C29_Witness ==
  /\ Len(layers) >= 3
  /\ \E i \in 1..(Len(layers) - 1) : layers[i].id > layers[i + 1].id

====
